---- MODULE Spec2Model ----
(***************************************************************************)
(* Model of the lesson sectioning engine (services/sectioning.py), the QA   *)
(* checker (services/qa_checker.py) and the admin endpoints that use them  *)
(* (api/v1/admin/book.py) of muallimi-soniy.                               *)
(*                                                                         *)
(* Conventions                                                             *)
(*  - A text is a sequence of Unicode code points (naturals).              *)
(*  - bbox values are page percentages; the model draws them from the      *)
(*    integers, on which the float comparisons of the code are exact.      *)
(*  - A fraction comparison such as  a / b >= 0.8  is written cross        *)
(*    multiplied (10 * a >= 8 * b); for the sizes reached here the float   *)
(*    quotient and the rational one compare alike.                         *)
(*  - A call that raises is modelled by the "fault" field of its outcome.  *)
(***************************************************************************)
EXTENDS Integers, Sequences, FiniteSets, TLC

\* units          the fragment list handed to the engine or the checker
\* gap_threshold  the threshold of the auto_section_page call
\* pc             "input" before the call, then the name of what was called
\* sectioning     the outcome of auto_section_page
\* qa             the QAResult of run_qa_checks
\* check          the result of a single check function
\* classified     the result of classifying a block / extracting its letter
\* segmented      the blocks returned by _segment_by_y_axis
\* publishing     the publish_page requests between their read of the latest
\*                version and their insert
\* db_pages       the pages table with each page's text units
\* db_sections    the sections table
\* db_versions    the page_versions table
\* db_sequences   the next primary key of each table
\* celery_tasks   the analysis tasks queued or running
\* response       the last request handled and its HTTP status
VARIABLES units, gap_threshold, pc, sectioning, qa, check, classified, segmented,
          publishing,
          db_pages, db_sections, db_versions, db_sequences, celery_tasks, response,
          _rate_limit_store, clock

limiter == <<_rate_limit_store, clock>>

backend == <<db_pages, db_sections, db_versions, db_sequences, celery_tasks, response>>

vars == <<units, gap_threshold, pc, sectioning, qa, check, classified, segmented,
          publishing, backend, limiter>>

\* ------------------------------------------------------------------------
\* Arabic text utilities (sectioning.py)
\* ------------------------------------------------------------------------
\* _DIACRITICS_RE: U+0610..U+061A, U+064B..U+065F, U+0670
_DIACRITICS_RE(ch) ==
    \/ (1552 <= ch /\ ch <= 1562)
    \/ (1611 <= ch /\ ch <= 1631)
    \/ ch = 1648

strip_diacritics(text) == SelectSeq(text, LAMBDA ch : ~_DIACRITICS_RE(ch))

is_arabic_letter(ch) ==
    \/ (1569 <= ch /\ ch <= 1610)
    \/ (1649 <= ch /\ ch <= 1791)

extract_arabic_letters(text) == SelectSeq(strip_diacritics(text), is_arabic_letter)

count_chars(text) == Len(extract_arabic_letters(text))

has_diacritics(text) == \E k \in 1..Len(text) : _DIACRITICS_RE(text[k])

\* ------------------------------------------------------------------------
\* Generic helpers for Python built-ins
\* ------------------------------------------------------------------------
\* sorted(seq, key=...): Python's sort is stable, so the place of an element
\* is the number of elements with a smaller key, or an equal key and an
\* earlier position.
sorted(seq, key(_)) ==
    LET n == Len(seq)
        rank(i) == 1 + Cardinality({j \in 1..n :
                        \/ key(seq[j]) < key(seq[i])
                        \/ (key(seq[j]) = key(seq[i]) /\ j < i)})
    IN  [p \in 1..n |-> seq[CHOOSE i \in 1..n : rank(i) = p]]

RECURSIVE SumSeq(_)
SumSeq(s) == IF s = <<>> THEN 0 ELSE Head(s) + SumSeq(Tail(s))

MinOf(S) == CHOOSE x \in S : \A y \in S : x <= y
MaxOf(S) == CHOOSE x \in S : \A y \in S : y <= x

CountIf(seq, P(_)) == Cardinality({k \in 1..Len(seq) : P(seq[k])})

Abs(x) == IF x < 0 THEN -x ELSE x

\* ------------------------------------------------------------------------
\* Title generation
\* ------------------------------------------------------------------------
_LETTER_NAMES_UZ ==
    (1575 :> "Alif") @@ (1576 :> "Bo") @@ (1578 :> "To") @@ (1579 :> "So") @@
    (1580 :> "Jim") @@ (1581 :> "Ha") @@ (1582 :> "Xo") @@ (1583 :> "Dal") @@
    (1584 :> "Zol") @@ (1585 :> "Ro") @@ (1586 :> "Zayn") @@ (1587 :> "Sin") @@
    (1588 :> "Shin") @@ (1589 :> "Sod") @@ (1590 :> "Zod") @@ (1591 :> "To") @@
    (1592 :> "Zo") @@ (1593 :> "Ayn") @@ (1594 :> "G'ayn") @@ (1601 :> "Fo") @@
    (1602 :> "Qof") @@ (1603 :> "Kof") @@ (1604 :> "Lom") @@ (1605 :> "Mim") @@
    (1606 :> "Nun") @@ (1607 :> "Ho") @@ (1608 :> "Vov") @@ (1610 :> "Yo") @@
    (1705 :> "Kof") @@ (1740 :> "Yo")

\* Python's None for a target letter (a letter is its code point).
None == 0 - 1

\* A title is the pair <<fixed words of the f-string, letter part>>; the
\* letter part of title_uz is the looked-up name, or the raw letter when the
\* table has no entry.
_generate_titles(section_type, target_letter) ==
    LET letter_ar == IF target_letter = None THEN <<>> ELSE <<target_letter>>
        letter_uz == IF target_letter \in DOMAIN _LETTER_NAMES_UZ
                     THEN [name |-> _LETTER_NAMES_UZ[target_letter], raw |-> <<>>]
                     ELSE [name |-> "", raw |-> letter_ar]
        no_letter == [name |-> "", raw |-> <<>>]
    IN  CASE section_type = "opening_sentence" ->
               [title_ar |-> <<"bismillah", <<>> >>, title_uz |-> <<"Bismillah", no_letter>>]
          [] section_type = "alphabet_grid" ->
               [title_ar |-> <<"al-huruf", <<>> >>, title_uz |-> <<"Alifbo", no_letter>>]
          [] section_type = "divider" ->
               [title_ar |-> <<"", <<>> >>, title_uz |-> <<"", no_letter>>]
          [] section_type = "letter_introduction" ->
               [title_ar |-> <<"harf", letter_ar>>, title_uz |-> <<"harfi", letter_uz>>]
          [] section_type = "letter_drill" ->
               [title_ar |-> <<"tamrin", letter_ar>>, title_uz |-> <<"mashqi", letter_uz>>]
          [] section_type = "word_drill" ->
               [title_ar |-> <<"kalimat", letter_ar>>, title_uz |-> <<"so'zlari", letter_uz>>]
          [] OTHER ->
               [title_ar |-> <<"", letter_ar>>,
                title_uz |-> <<"", IF letter_uz = no_letter
                                   THEN [name |-> "Bo'lim", raw |-> <<>>]
                                   ELSE letter_uz>>]

\* ------------------------------------------------------------------------
\* Y-axis segmentation
\* ------------------------------------------------------------------------
\* the loop splitting at a gap equal to the threshold too
RECURSIVE _segment_loop_strict(_, _, _, _)
_segment_loop_strict(sorted_units, i, st, threshold) ==
    IF i > Len(sorted_units) THEN st
    ELSE
      LET prev == sorted_units[i - 1]
          curr == sorted_units[i]
          prev_bottom == prev.bbox_y + prev.bbox_h
          curr_top == curr.bbox_y
          gap == curr_top - prev_bottom
          is_divider == curr.unit_type = "divider"
          nxt == IF gap >= threshold \/ is_divider
                 THEN IF is_divider
                      THEN [blocks |->
                              (IF st.current_block # <<>>
                               THEN Append(st.blocks, st.current_block)
                               ELSE st.blocks) \o << <<curr>> >>,
                            current_block |-> <<>>]
                      ELSE [blocks |-> Append(st.blocks, st.current_block),
                            current_block |-> <<curr>>]
                 ELSE [blocks |-> st.blocks,
                       current_block |-> Append(st.current_block, curr)]
      IN  _segment_loop_strict(sorted_units, i + 1, nxt, threshold)

\* The for loop of _segment_by_y_axis from index i on; st holds the loop's
\* two locals.
RECURSIVE _segment_loop(_, _, _, _)
_segment_loop(sorted_units, i, st, threshold) ==
    IF i > Len(sorted_units) THEN st
    ELSE
      LET prev == sorted_units[i - 1]
          curr == sorted_units[i]
          prev_bottom == prev.bbox_y + prev.bbox_h
          curr_top == curr.bbox_y
          gap == curr_top - prev_bottom
          is_divider == curr.unit_type = "divider"
          nxt == IF gap > threshold \/ is_divider
                 THEN IF is_divider
                      THEN [blocks |->
                              (IF st.current_block # <<>>
                               THEN Append(st.blocks, st.current_block)
                               ELSE st.blocks) \o << <<curr>> >>,
                            current_block |-> <<>>]
                      ELSE [blocks |-> Append(st.blocks, st.current_block),
                            current_block |-> <<curr>>]
                 ELSE [blocks |-> st.blocks,
                       current_block |-> Append(st.current_block, curr)]
      IN  _segment_loop(sorted_units, i + 1, nxt, threshold)

\* the units taken in the order given, not sorted by bbox_y
_segment_by_y_axis_unsorted(us, threshold) ==
    IF us = <<>> THEN <<>>
    ELSE
      LET st == _segment_loop(us, 2, [blocks |-> <<>>, current_block |-> <<us[1]>>],
                              threshold)
      IN  IF st.current_block # <<>>
          THEN Append(st.blocks, st.current_block)
          ELSE st.blocks

\* the block still open after the loop is not emitted
_segment_by_y_axis_open_block_lost(us, threshold) ==
    IF us = <<>> THEN <<>>
    ELSE
      LET sorted_units == sorted(us, LAMBDA u : u.bbox_y)
          st == _segment_loop(sorted_units, 2,
                              [blocks |-> <<>>, current_block |-> <<sorted_units[1]>>],
                              threshold)
      IN  st.blocks

_segment_by_y_axis(us, threshold) ==
    IF us = <<>> THEN <<>>
    ELSE
      LET sorted_units == sorted(us, LAMBDA u : u.bbox_y)
          st == _segment_loop(sorted_units, 2,
                              [blocks |-> <<>>, current_block |-> <<sorted_units[1]>>],
                              threshold)
      IN  IF st.current_block # <<>>
          THEN Append(st.blocks, st.current_block)
          ELSE st.blocks

\* ------------------------------------------------------------------------
\* Block classification
\* ------------------------------------------------------------------------
\* only the divider rule and the fallback rule tried
_classify_block_fallback_only(block, block_index, total_blocks) ==
    IF block = <<>> THEN "generic"
    ELSE IF Len(block) = 1 /\ block[1].unit_type = "divider" THEN "divider"
    ELSE IF 10 * CountIf(block, LAMBDA u : u.unit_type = "letter") >= 6 * Len(block)
         THEN "letter_drill"
         ELSE "generic"

_classify_block(block, block_index, total_blocks) ==
    IF block = <<>> THEN "generic"
    ELSE IF Len(block) = 1 /\ block[1].unit_type = "divider" THEN "divider"
    ELSE
      LET total == Len(block)
          texts == [k \in 1..total |-> block[k].text_content]
          char_counts == [k \in 1..total |-> count_chars(texts[k])]
          sentence_count == CountIf(block, LAMBDA u : u.unit_type = "sentence")
          letter_count == CountIf(block, LAMBDA u : u.unit_type = "letter")
          word_count == CountIf(block, LAMBDA u : u.unit_type = "word")
          \* avg_len > 10 with avg_len = sum(len(t)) / total
          opening ==
              /\ block_index = 0 /\ sentence_count >= 1 /\ total <= 3
              /\ SumSeq([k \in 1..total |-> Len(texts[k])]) > 10 * total
          \* heights of the letter units; avg_h = sum / n and, for n <= 100
          \* and a positive integer sum, max(avg_h, 0.01) = avg_h
          grid_heights == SelectSeq(block, LAMBDA u : u.unit_type = "letter")
          grid_n == Len(grid_heights)
          grid_sum == SumSeq([k \in 1..grid_n |-> grid_heights[k].bbox_h])
          similar == CountIf(grid_heights, LAMBDA u :
                        IF grid_sum = 0 THEN TRUE
                        ELSE 10 * Abs(u.bbox_h * grid_n - grid_sum) < 3 * grid_sum)
          grid == letter_count >= 14 /\ grid_n > 0 /\ 10 * similar > 7 * grid_n
          single_letters == SelectSeq(block, LAMBDA u : count_chars(u.text_content) = 1)
          intro ==
              /\ total <= 5
              /\ single_letters # <<>> /\ 2 * Len(single_letters) >= total
              /\ MaxOf({single_letters[k].bbox_h : k \in 1..Len(single_letters)}) > 3
          diacritical_count ==
              CountIf(texts, LAMBDA t : has_diacritics(t) /\ count_chars(t) <= 2)
          drill ==
              /\ (2 * letter_count >= total \/ total >= 3)
              /\ 10 * diacritical_count >= 4 * total
          multi_letter == CountIf(char_counts, LAMBDA c : 2 <= c /\ c <= 6)
          words ==
              /\ (10 * word_count >= 3 * total \/ total >= 2)
              /\ 10 * multi_letter >= 4 * total
      IN  IF opening THEN "opening_sentence"
          ELSE IF grid THEN "alphabet_grid"
          ELSE IF intro THEN "letter_introduction"
          ELSE IF drill THEN "letter_drill"
          ELSE IF words THEN "word_drill"
          ELSE IF 10 * letter_count >= 6 * total THEN "letter_drill"
          ELSE "generic"

\* ------------------------------------------------------------------------
\* Target letter extraction
\* ------------------------------------------------------------------------
RECURSIVE _all_letters(_)
_all_letters(block) ==
    IF block = <<>> THEN <<>>
    ELSE extract_arabic_letters(Head(block).text_content) \o _all_letters(Tail(block))

\* the last inserted entry taken among those of the largest count
most_common_1_last(all_letters) ==
    LET n == Len(all_letters)
        count(c) == Cardinality({k \in 1..n : all_letters[k] = c})
        first(c) == MinOf({k \in 1..n : all_letters[k] = c})
        letters == {all_letters[k] : k \in 1..n}
    IN  CHOOSE c \in letters : \A d \in letters :
            \/ count(c) > count(d)
            \/ (count(c) = count(d) /\ first(c) >= first(d))

\* Counter(all_letters).most_common(1): the entry with the largest count, the
\* first inserted one among equals (a Counter keeps insertion order and
\* most_common(1) takes max() over its items).
most_common_1(all_letters) ==
    LET n == Len(all_letters)
        count(c) == Cardinality({k \in 1..n : all_letters[k] = c})
        first(c) == MinOf({k \in 1..n : all_letters[k] = c})
        letters == {all_letters[k] : k \in 1..n}
    IN  CHOOSE c \in letters : \A d \in letters :
            \/ count(c) > count(d)
            \/ (count(c) = count(d) /\ first(c) <= first(d))

_extract_target_letter(block, section_type) ==
    IF section_type \in {"opening_sentence", "divider", "alphabet_grid"} THEN None
    ELSE LET all_letters == _all_letters(block)
         IN  IF all_letters = <<>> THEN None ELSE most_common_1(all_letters)

\* ------------------------------------------------------------------------
\* Main auto-sectioning function
\* ------------------------------------------------------------------------
\* The outcome of a call: fault "none" and the returned sections, or the
\* exception the call raised (nothing is returned then).
Raised(fault) == [fault |-> fault, sections |-> <<>>]

\* The fidelity loop over unit_ids: some uid is already in seen_unit_ids when
\* its assert runs (seen before this block, or earlier in this block).
_assigned_twice(unit_ids, seen_unit_ids) ==
    \E k \in 1..Len(unit_ids) :
        \/ unit_ids[k] \in seen_unit_ids
        \/ \E j \in 1..(k - 1) : unit_ids[j] = unit_ids[k]

\* unit_ids collected in block order, not sorted by sort_order
RECURSIVE _section_loop_block_order(_, _, _, _, _)
_section_loop_block_order(page_id, blocks, i, sections, seen_unit_ids) ==
    IF i >= Len(blocks)
    THEN [fault |-> "none", sections |-> sections, seen |-> seen_unit_ids]
    ELSE
      LET block == blocks[i + 1]
          section_type == _classify_block(block, i, Len(blocks))
          target_letter == _extract_target_letter(block, section_type)
          titles == _generate_titles(section_type, target_letter)
          unit_ids == [k \in 1..Len(block) |-> block[k].id]
      IN  IF _assigned_twice(unit_ids, seen_unit_ids)
          THEN [fault |-> "AssertionError: assigned to multiple sections",
                sections |-> <<>>, seen |-> {}]
          ELSE IF block = <<>>
          THEN \* min() of an empty sequence
               [fault |-> "ValueError", sections |-> <<>>, seen |-> {}]
          ELSE
            LET y_start == MinOf({block[k].bbox_y : k \in 1..Len(block)})
                y_end == MaxOf({block[k].bbox_y + block[k].bbox_h : k \in 1..Len(block)})
                section == [page_id |-> page_id,
                            section_type |-> section_type,
                            target_letter |-> target_letter,
                            title_ar |-> titles.title_ar,
                            title_uz |-> titles.title_uz,
                            sort_order |-> i,
                            unit_ids |-> unit_ids,
                            bbox_y_start |-> y_start,
                            bbox_y_end |-> y_end,
                            is_manual |-> FALSE]
            IN  _section_loop_block_order(page_id, blocks, i + 1, Append(sections, section),
                              seen_unit_ids \cup {unit_ids[k] : k \in 1..Len(unit_ids)})

\* The loop "for i, block in enumerate(blocks)" from index i (0-based) on.
RECURSIVE _section_loop(_, _, _, _, _)
_section_loop(page_id, blocks, i, sections, seen_unit_ids) ==
    IF i >= Len(blocks)
    THEN [fault |-> "none", sections |-> sections, seen |-> seen_unit_ids]
    ELSE
      LET block == blocks[i + 1]
          section_type == _classify_block(block, i, Len(blocks))
          target_letter == _extract_target_letter(block, section_type)
          titles == _generate_titles(section_type, target_letter)
          block_sorted == sorted(block, LAMBDA u : u.sort_order)
          unit_ids == [k \in 1..Len(block_sorted) |-> block_sorted[k].id]
      IN  IF _assigned_twice(unit_ids, seen_unit_ids)
          THEN [fault |-> "AssertionError: assigned to multiple sections",
                sections |-> <<>>, seen |-> {}]
          ELSE IF block = <<>>
          THEN \* min() of an empty sequence
               [fault |-> "ValueError", sections |-> <<>>, seen |-> {}]
          ELSE
            LET y_start == MinOf({block[k].bbox_y : k \in 1..Len(block)})
                y_end == MaxOf({block[k].bbox_y + block[k].bbox_h : k \in 1..Len(block)})
                section == [page_id |-> page_id,
                            section_type |-> section_type,
                            target_letter |-> target_letter,
                            title_ar |-> titles.title_ar,
                            title_uz |-> titles.title_uz,
                            sort_order |-> i,
                            unit_ids |-> unit_ids,
                            bbox_y_start |-> y_start,
                            bbox_y_end |-> y_end,
                            is_manual |-> FALSE]
            IN  _section_loop(page_id, blocks, i + 1, Append(sections, section),
                              seen_unit_ids \cup {unit_ids[k] : k \in 1..Len(unit_ids)})

auto_section_page(page_id, us, threshold) ==
    IF us = <<>> THEN [fault |-> "none", sections |-> <<>>]
    ELSE
      LET blocks == _segment_by_y_axis(us, threshold)
          r == _section_loop(page_id, blocks, 0, <<>>, {})
          all_unit_ids == {us[k].id : k \in 1..Len(us)}
      IN  IF r.fault # "none" THEN Raised(r.fault)
          ELSE IF r.seen # all_unit_ids THEN Raised("AssertionError: unit loss")
          ELSE [fault |-> "none", sections |-> r.sections]

\* ------------------------------------------------------------------------
\* QA checker (qa_checker.py, image_analyzer.py)
\* ------------------------------------------------------------------------
\* ARABIC_DIACRITICS: U+064B..U+0655 and U+0670
ARABIC_DIACRITICS == (1611..1621) \cup {1648}

has_arabic_diacritics(text) == \E k \in 1..Len(text) : text[k] \in ARABIC_DIACRITICS

\* the code points c with c.isspace()
WhiteSpace ==
    {9, 10, 11, 12, 13, 28, 29, 30, 31, 32, 133, 160, 5760} \cup (8192..8202)
        \cup {8232, 8233, 8239, 8287, 12288}

\* str.strip(): drop the leading and the trailing white space
RECURSIVE lstrip(_)
lstrip(text) ==
    IF text # <<>> /\ Head(text) \in WhiteSpace THEN lstrip(Tail(text)) ELSE text

RECURSIVE rstrip(_)
rstrip(text) ==
    IF text # <<>> /\ text[Len(text)] \in WhiteSpace
    THEN rstrip(SubSeq(text, 1, Len(text) - 1))
    ELSE text

\* strip() forgotten: the text as it is
strip_nothing(text) == text

strip(text) == rstrip(lstrip(text))

\* seq[:n]
Prefix(seq, n) == SubSeq(seq, 1, IF Len(seq) < n THEN Len(seq) ELSE n)

\* the minimum not enforced on an empty page
check_unit_count_empty_ok(us, min_units) ==
    LET count == Len(us)
    IN  [name |-> "unit_count",
         passed |-> count = 0 \/ count >= min_units,
         details |-> [count |-> count, min_required |-> min_units]]

check_unit_count(us, min_units) ==
    LET count == Len(us)
    IN  [name |-> "unit_count",
         passed |-> count >= min_units,
         details |-> [count |-> count, min_required |-> min_units]]

\* has_arabic of check_diacritics_presence: a character in U+0600..U+06FF
has_arabic(text) == \E k \in 1..Len(text) : 1536 <= text[k] /\ text[k] <= 1791

\* the threshold taken exclusive
_ratio_passed_strict(units_with_diacritics, total_arabic_units) ==
    10 * units_with_diacritics > 8 * total_arabic_units

\* ratio >= 0.8 with ratio = units_with_diacritics / total_arabic_units
_ratio_passed(units_with_diacritics, total_arabic_units) ==
    10 * units_with_diacritics >= 8 * total_arabic_units

check_diacritics_presence(us) ==
    LET arabic == SelectSeq(us, LAMBDA u : has_arabic(u.text_content))
        total_arabic_units == Len(arabic)
        units_with_diacritics ==
            CountIf(arabic, LAMBDA u : has_arabic_diacritics(u.text_content))
        missing == SelectSeq(arabic, LAMBDA u : ~has_arabic_diacritics(u.text_content))
        units_missing_diacritics ==
            [k \in 1..Len(missing) |->
                [sort_order |-> missing[k].sort_order,
                 text |-> Prefix(missing[k].text_content, 50)]]
    IN  IF total_arabic_units = 0
        THEN [name |-> "diacritics_presence", passed |-> TRUE, details |-> <<>>]
        ELSE [name |-> "diacritics_presence",
              passed |-> _ratio_passed(units_with_diacritics, total_arabic_units),
              details |-> [total_arabic_units |-> total_arabic_units,
                           with_diacritics |-> units_with_diacritics,
                           missing |-> Prefix(units_missing_diacritics, 10)]]

Min2(a, b) == IF a < b THEN a ELSE b
Max2(a, b) == IF a > b THEN a ELSE b

\* the ratio taken over the larger of the two areas
_overlap_entry_max_area(u1, u2) ==
    IF u1.bbox_w = 0 \/ u2.bbox_w = 0 THEN <<>>
    ELSE
      LET overlap_x == Max2(0, Min2(u1.bbox_x + u1.bbox_w, u2.bbox_x + u2.bbox_w)
                                 - Max2(u1.bbox_x, u2.bbox_x))
          overlap_y == Max2(0, Min2(u1.bbox_y + u1.bbox_h, u2.bbox_y + u2.bbox_h)
                                 - Max2(u1.bbox_y, u2.bbox_y))
          overlap_area == overlap_x * overlap_y
          area1 == u1.bbox_w * u1.bbox_h
          area2 == u2.bbox_w * u2.bbox_h
          max_area == IF Max2(area1, area2) > 0 THEN Max2(area1, area2) ELSE 1
      IN  IF 10 * overlap_area > 3 * max_area
          THEN << [unit_a |-> u1.sort_order, unit_b |-> u2.sort_order,
                   overlap_ratio |-> <<overlap_area, max_area>>] >>
          ELSE <<>>

\* The body of the double loop of check_overlaps for one pair: the entry
\* appended to overlaps, as a sequence of zero or one entries.  The ratio
\* overlap_area / min_area is kept as the pair of its terms.
_overlap_entry(u1, u2) ==
    IF u1.bbox_w = 0 \/ u2.bbox_w = 0 THEN <<>>
    ELSE
      LET overlap_x == Max2(0, Min2(u1.bbox_x + u1.bbox_w, u2.bbox_x + u2.bbox_w)
                                 - Max2(u1.bbox_x, u2.bbox_x))
          overlap_y == Max2(0, Min2(u1.bbox_y + u1.bbox_h, u2.bbox_y + u2.bbox_h)
                                 - Max2(u1.bbox_y, u2.bbox_y))
          overlap_area == overlap_x * overlap_y
          area1 == u1.bbox_w * u1.bbox_h
          area2 == u2.bbox_w * u2.bbox_h
          min_area == IF Min2(area1, area2) > 0 THEN Min2(area1, area2) ELSE 1
      IN  IF 10 * overlap_area > 3 * min_area
          THEN << [unit_a |-> u1.sort_order, unit_b |-> u2.sort_order,
                   overlap_ratio |-> <<overlap_area, min_area>>] >>
          ELSE <<>>

\* for i, u1 ... for j, u2 ... (i >= j skipped), from the pair (i, j) on
RECURSIVE _overlap_loop(_, _, _)
_overlap_loop(us, i, j) ==
    IF i > Len(us) THEN <<>>
    ELSE IF j > Len(us) THEN _overlap_loop(us, i + 1, 1)
    ELSE (IF i >= j THEN <<>> ELSE _overlap_entry(us[i], us[j]))
            \o _overlap_loop(us, i, j + 1)

check_overlaps(us) ==
    LET overlaps == _overlap_loop(us, 1, 1)
    IN  [name |-> "no_overlaps",
         passed |-> Len(overlaps) = 0,
         details |-> [overlaps |-> Prefix(overlaps, 10)]]

\* The loop of check_duplicates over us; seen maps a text to the sort_order
\* of its first unit.
RECURSIVE _duplicates_loop(_, _)
_duplicates_loop(us, seen) ==
    IF us = <<>> THEN <<>>
    ELSE
      LET u == Head(us)
          text == strip(u.text_content)
      IN  IF text = <<>> THEN _duplicates_loop(Tail(us), seen)
          ELSE IF text \in DOMAIN seen
          THEN << [text |-> Prefix(text, 50),
                   sort_order_a |-> seen[text],
                   sort_order_b |-> u.sort_order] >>
                  \o _duplicates_loop(Tail(us), seen)
          ELSE _duplicates_loop(Tail(us), (text :> u.sort_order) @@ seen)

check_duplicates(us) ==
    LET duplicates == _duplicates_loop(us, <<>>)
    IN  [name |-> "no_duplicates",
         passed |-> Len(duplicates) = 0,
         details |-> [duplicates |-> Prefix(duplicates, 10)]]

\* empty hitboxes made to fail the check
check_empty_hitboxes_blocking(us) ==
    LET empty == SelectSeq(us, LAMBDA u : u.bbox_w = 0 \/ u.bbox_h = 0)
    IN  [name |-> "hitbox_check",
         passed |-> Len(empty) = 0,
         details |-> [empty_count |-> Len(empty)]]

check_empty_hitboxes(us) ==
    LET empty == SelectSeq(us, LAMBDA u : u.bbox_w = 0 \/ u.bbox_h = 0)
        empty_units == [k \in 1..Len(empty) |->
                          [sort_order |-> empty[k].sort_order,
                           text |-> Prefix(empty[k].text_content, 30)]]
    IN  [name |-> "hitbox_check",
         passed |-> TRUE,
         details |-> [empty_count |-> Len(empty),
                      empty_units |-> Prefix(empty_units, 10)]]

\* audio coverage made to fail a page with a unit without audio
check_audio_coverage_blocking(us) ==
    LET total == Len(us)
        with_audio == CountIf(us, LAMBDA u : u.audio_segment_url)
    IN  [name |-> "audio_coverage",
         passed |-> with_audio = total,
         details |-> [total |-> total, with_audio |-> with_audio]]

check_audio_coverage(us) ==
    LET total == Len(us)
        with_audio == CountIf(us, LAMBDA u : u.audio_segment_url)
    IN  [name |-> "audio_coverage",
         passed |-> TRUE,
         details |-> [total |-> total, with_audio |-> with_audio]]

\* the two informational checks given no weight
weights_informational_unweighted ==
    [unit_count |-> 15, diacritics_presence |-> 30, no_overlaps |-> 20,
     no_duplicates |-> 15, hitbox_check |-> 0, audio_coverage |-> 0]

\* the weights of run_qa_checks, in hundredths
weights ==
    [unit_count |-> 15, diacritics_presence |-> 30, no_overlaps |-> 20,
     no_duplicates |-> 15, hitbox_check |-> 10, audio_coverage |-> 10]

\* every lookup missing the table
weights_get_default(name) == 10

\* weights.get(name, 0.1)
weights_get(name) == IF name \in DOMAIN weights THEN weights[name] ELSE 10

\* diacritics_presence left out of the blocking checks as well
blocking_checks_no_diacritics(checks) ==
    SelectSeq(checks, LAMBDA c : c.name \notin {"audio_coverage", "diacritics_presence"})

blocking_checks(checks) == SelectSeq(checks, LAMBDA c : c.name # "audio_coverage")

\* score is in hundredths: round(score, 2) of the float sum is the exact sum
\* of the hundredths for each of the 64 sets of passed checks.
run_qa_checks(us) ==
    LET checks == << check_unit_count(us, 1),
                     check_diacritics_presence(us),
                     check_overlaps(us),
                     check_duplicates(us),
                     check_empty_hitboxes(us),
                     check_audio_coverage(us) >>
        blocking == blocking_checks(checks)
        passed == \A k \in 1..Len(blocking) : blocking[k].passed
        score == SumSeq([k \in 1..Len(checks) |->
                    weights_get(checks[k].name) * (IF checks[k].passed THEN 1 ELSE 0)])
        failed_checks == SelectSeq(checks, LAMBDA c : ~c.passed)
        failed == [k \in 1..Len(failed_checks) |-> failed_checks[k].name]
    IN  [passed |-> passed,
         score |-> score,
         checks |-> checks,
         summary |-> [ok |-> passed, failed |-> IF passed THEN <<>> ELSE failed,
                      score |-> score]]

\* ------------------------------------------------------------------------
\* Inputs of the sectioning engine
\* ------------------------------------------------------------------------
MaxUnits == 3

PageIds == {1}

TEXT_EMPTY == <<>>
\* BA with FATHA
TEXT_BA_FATHA == <<1576, 1614>>

\* the gap between y = 0 and y = 2 is 1, the gap to y = 10 is 7 or 9
YValues == {0, 2, 10}

\* the default threshold of auto_section_page, and one equal to a gap
Thresholds == {1, 5}

SectionKinds ==
    { [unit_type |-> "letter", text_content |-> TEXT_BA_FATHA],
      [unit_type |-> "divider", text_content |-> TEXT_EMPTY] }

\* The fragments of a page; two fragments of a list may carry the same id.
\* sort_order follows from the id, so that the sort_order order of a list
\* differs from its bbox_y order and has ties.
SectionFragments ==
    { [id |-> id, unit_type |-> kd.unit_type, text_content |-> kd.text_content,
       bbox_x |-> 0, bbox_y |-> y, bbox_w |-> 10, bbox_h |-> 1,
       sort_order |-> id % 2, audio_segment_url |-> FALSE] :
      id \in 1..MaxUnits, kd \in SectionKinds, y \in YValues }

ListsOf(S, n) == UNION { [1..k -> S] : k \in 0..n }

NoOutcome == [fault |-> "not called", sections |-> <<>>]

NoQA == [passed |-> FALSE, score |-> 0, checks |-> <<>>,
         summary |-> [ok |-> FALSE, failed |-> <<>>, score |-> 0]]

NoCheck == [name |-> "", passed |-> FALSE, details |-> <<>>]

NoBlockResult == [block_index |-> 0, section_type |-> "", target_letter |-> None]

NoResponse == [request |-> "", status |-> 0]

\* no database behind the pure functions
NoBackend ==
    /\ db_pages = <<>>
    /\ db_sections = {}
    /\ db_versions = {}
    /\ db_sequences = [sections |-> 1, page_versions |-> 1, text_units |-> 1, audit_logs |-> 1]
    /\ celery_tasks = {}
    /\ response = NoResponse

Init ==
    /\ units \in ListsOf(SectionFragments, MaxUnits)
    /\ gap_threshold = 5
    /\ pc = "input"
    /\ sectioning = NoOutcome
    /\ qa = NoQA
    /\ check = NoCheck
    /\ classified = NoBlockResult
    /\ segmented = <<>>
    /\ publishing = {}
    /\ _rate_limit_store = <<>>
    /\ clock = 0
    /\ NoBackend

\* A call auto_section_page(page_id, units, threshold).
AutoSection ==
    /\ pc = "input"
    /\ \E page_id \in PageIds, threshold \in Thresholds :
          /\ gap_threshold' = threshold
          /\ sectioning' = auto_section_page(page_id, units, threshold)
    /\ pc' = "sectioned"
    /\ UNCHANGED <<limiter, units, qa, check, classified, segmented, publishing, backend>>

Next == AutoSection

Spec == Init /\ [][Next]_vars

\* ------------------------------------------------------------------------
\* Inputs of the QA checker
\* ------------------------------------------------------------------------
MaxQAUnits == 2

\* BA, and BA after a space
TEXT_BA == <<1576>>
TEXT_SPACE_BA == <<32, 1576>>
TEXT_SPACE == <<32>>
\* Latin A
TEXT_LATIN == <<65>>

QATexts == {TEXT_EMPTY, TEXT_SPACE, TEXT_BA, TEXT_SPACE_BA, TEXT_BA_FATHA, TEXT_LATIN}

\* <<bbox_x, bbox_y, bbox_w, bbox_h>>: the boxes of the overlap example and a
\* box of no width
QABoxes == { <<0, 0, 10, 10>>, <<5, 5, 10, 10>>, <<5, 5, 6, 6>>, <<0, 0, 0, 10>> }

\* The unit dicts publish_page builds from the page's text units, which come
\* in sort_order order.
QAUnit(k, text, box, audio) ==
    [id |-> k, unit_type |-> "letter", text_content |-> text,
     bbox_x |-> box[1], bbox_y |-> box[2], bbox_w |-> box[3], bbox_h |-> box[4],
     sort_order |-> k - 1, audio_segment_url |-> audio]

\* the unit dicts of a list l of <<text, box, audio>>
QAList(l) == [k \in 1..Len(l) |-> QAUnit(k, l[k][1], l[k][2], l[k][3])]

InitQA ==
    /\ \E l \in ListsOf(QATexts \X QABoxes \X BOOLEAN, MaxQAUnits) : units = QAList(l)
    /\ gap_threshold = 5
    /\ pc = "input"
    /\ sectioning = NoOutcome
    /\ qa = NoQA
    /\ check = NoCheck
    /\ classified = NoBlockResult
    /\ segmented = <<>>
    /\ publishing = {}
    /\ _rate_limit_store = <<>>
    /\ clock = 0
    /\ NoBackend

\* A call run_qa_checks(units).
RunQA ==
    /\ pc = "input"
    /\ qa' = run_qa_checks(units)
    /\ pc' = "checked"
    /\ UNCHANGED <<limiter, units, gap_threshold, sectioning, check, classified, segmented,
                   publishing, backend>>

NextQA == RunQA

SpecQA == InitQA /\ [][NextQA]_vars

\* Pages of up to MaxDiaUnits units stacked without overlap, each with an
\* Arabic text with or without diacritics, or a Latin text.
MaxDiaUnits == 10

DiaTexts == {TEXT_BA, TEXT_BA_FATHA, TEXT_LATIN}

\* the unit dicts of a list l of texts
DiaList(l) == [k \in 1..Len(l) |-> QAUnit(k, l[k], <<0, 9 * (k - 1), 10, 5>>, FALSE)]

InitDia ==
    /\ \E l \in ListsOf(DiaTexts, MaxDiaUnits) : units = DiaList(l)
    /\ gap_threshold = 5
    /\ pc = "input"
    /\ sectioning = NoOutcome
    /\ qa = NoQA
    /\ check = NoCheck
    /\ classified = NoBlockResult
    /\ segmented = <<>>
    /\ publishing = {}
    /\ _rate_limit_store = <<>>
    /\ clock = 0
    /\ NoBackend

\* A call check_diacritics_presence(units).
CheckDiacritics ==
    /\ pc = "input"
    /\ check' = check_diacritics_presence(units)
    /\ pc' = "diacritics"
    /\ UNCHANGED <<limiter, units, gap_threshold, sectioning, qa, classified, segmented,
                   publishing, backend>>

NextDia == CheckDiacritics

SpecDia == InitDia /\ [][NextDia]_vars

\* Pages of up to MaxOverlapUnits units with one text and boxes that overlap
\* in 0.25, 0.3 and 25/36 of the smaller one, contain one another, are
\* disjoint, or have no width or no height.
MaxOverlapUnits == 3

OverlapBoxes == { <<0, 0, 10, 10>>, <<5, 5, 10, 10>>, <<5, 5, 6, 6>>, <<7, 0, 10, 10>>,
                  <<20, 20, 4, 4>>, <<0, 0, 0, 10>>, <<0, 0, 10, 0>> }

\* the unit dicts of a list l of boxes
OverlapList(l) == [k \in 1..Len(l) |-> QAUnit(k, TEXT_BA_FATHA, l[k], FALSE)]

InitOverlap ==
    /\ \E l \in ListsOf(OverlapBoxes, MaxOverlapUnits) : units = OverlapList(l)
    /\ gap_threshold = 5
    /\ pc = "input"
    /\ sectioning = NoOutcome
    /\ qa = NoQA
    /\ check = NoCheck
    /\ classified = NoBlockResult
    /\ segmented = <<>>
    /\ publishing = {}
    /\ _rate_limit_store = <<>>
    /\ clock = 0
    /\ NoBackend

\* A call check_overlaps(units).
CheckOverlaps ==
    /\ pc = "input"
    /\ check' = check_overlaps(units)
    /\ pc' = "overlaps"
    /\ UNCHANGED <<limiter, units, gap_threshold, sectioning, qa, classified, segmented,
                   publishing, backend>>

NextOverlap == CheckOverlaps

SpecOverlap == InitOverlap /\ [][NextOverlap]_vars

\* ------------------------------------------------------------------------
\* Both functions on one list: auto_section_page, then run_qa_checks
\* ------------------------------------------------------------------------
MaxBothUnits == 1

InitBoth ==
    /\ \E l \in ListsOf(QATexts \X QABoxes \X BOOLEAN, MaxBothUnits) : units = QAList(l)
    /\ gap_threshold = 5
    /\ pc = "input"
    /\ sectioning = NoOutcome
    /\ qa = NoQA
    /\ check = NoCheck
    /\ classified = NoBlockResult
    /\ segmented = <<>>
    /\ publishing = {}
    /\ _rate_limit_store = <<>>
    /\ clock = 0
    /\ NoBackend

\* A call run_qa_checks(units) on the list auto_section_page was called with.
RunQASectioned ==
    /\ pc = "sectioned"
    /\ qa' = run_qa_checks(units)
    /\ pc' = "sectioned and checked"
    /\ UNCHANGED <<limiter, units, gap_threshold, sectioning, check, classified, segmented,
                   publishing, backend>>

NextBoth == AutoSection \/ RunQASectioned

SpecBoth == InitBoth /\ [][NextBoth]_vars

\* ------------------------------------------------------------------------
\* Inputs of _extract_target_letter
\* ------------------------------------------------------------------------
\* models/section.py SectionType
SectionType == {"opening_sentence", "alphabet_grid", "letter_introduction",
                "letter_drill", "word_drill", "divider", "generic"}

MaxLetterUnits == 3

\* TA, and BA followed by TA
TEXT_TA == <<1578>>
TEXT_BA_TA == <<1576, 1578>>

LetterTexts == {TEXT_EMPTY, TEXT_LATIN, TEXT_BA, TEXT_TA, TEXT_BA_TA, TEXT_BA_FATHA}

\* A block of up to MaxLetterUnits fragments, in block order.
InitLetter ==
    /\ \E l \in ListsOf(LetterTexts, MaxLetterUnits) : units = DiaList(l)
    /\ gap_threshold = 5
    /\ pc = "input"
    /\ sectioning = NoOutcome
    /\ qa = NoQA
    /\ check = NoCheck
    /\ classified = NoBlockResult
    /\ segmented = <<>>
    /\ publishing = {}
    /\ _rate_limit_store = <<>>
    /\ clock = 0
    /\ NoBackend

\* A call _extract_target_letter(units, section_type).
ExtractTargetLetter ==
    /\ pc = "input"
    /\ \E section_type \in SectionType :
          classified' = [block_index |-> 0,
                         section_type |-> section_type,
                         target_letter |-> _extract_target_letter(units, section_type)]
    /\ pc' = "letter"
    /\ UNCHANGED <<limiter, units, gap_threshold, sectioning, qa, check, segmented, publishing,
                   backend>>

NextLetter == ExtractTargetLetter

SpecLetter == InitLetter /\ [][NextLetter]_vars

\* ------------------------------------------------------------------------
\* Inputs of _classify_block
\* ------------------------------------------------------------------------
MaxGroups == 2

\* a sentence of 21 characters, 17 of them letters
TEXT_SENTENCE == <<1576, 1587, 1605, 32, 1575, 1604, 1604, 1607, 32, 1575, 1604,
                   1585, 1581, 1605, 1606, 32, 1575, 1604, 1585, 1581, 1610>>

\* letters of height 2 without and with a diacritic, a large letter, a word of
\* two letters, a word without Arabic letters, a sentence, a divider
ClassKinds ==
    { [unit_type |-> "letter", text_content |-> TEXT_BA, bbox_h |-> 2],
      [unit_type |-> "letter", text_content |-> TEXT_BA_FATHA, bbox_h |-> 2],
      [unit_type |-> "letter", text_content |-> TEXT_BA, bbox_h |-> 10],
      [unit_type |-> "word", text_content |-> TEXT_BA_TA, bbox_h |-> 2],
      [unit_type |-> "word", text_content |-> TEXT_LATIN, bbox_h |-> 2],
      [unit_type |-> "sentence", text_content |-> TEXT_SENTENCE, bbox_h |-> 2],
      [unit_type |-> "divider", text_content |-> TEXT_EMPTY, bbox_h |-> 1] }

\* how many fragments of one kind follow one another in a block
GroupSizes == {1, 2, 5, 14}

RECURSIVE Repeat(_, _)
Repeat(kind, n) == IF n = 0 THEN <<>> ELSE <<kind>> \o Repeat(kind, n - 1)

RECURSIVE KindsOf(_)
KindsOf(l) ==
    IF l = <<>> THEN <<>> ELSE Repeat(Head(l)[1], Head(l)[2]) \o KindsOf(Tail(l))

\* the block of a list l of <<kind, size>> groups
BlockOf(l) ==
    LET ks == KindsOf(l)
    IN  [k \in 1..Len(ks) |->
            [id |-> k, unit_type |-> ks[k].unit_type, text_content |-> ks[k].text_content,
             bbox_x |-> 0, bbox_y |-> 0, bbox_w |-> 10, bbox_h |-> ks[k].bbox_h,
             sort_order |-> k - 1, audio_segment_url |-> FALSE]]

InitClassify ==
    /\ \E l \in ListsOf(ClassKinds \X GroupSizes, MaxGroups) : units = BlockOf(l)
    /\ gap_threshold = 5
    /\ pc = "input"
    /\ sectioning = NoOutcome
    /\ qa = NoQA
    /\ check = NoCheck
    /\ classified = NoBlockResult
    /\ segmented = <<>>
    /\ publishing = {}
    /\ _rate_limit_store = <<>>
    /\ clock = 0
    /\ NoBackend

\* The body of the loop of auto_section_page up to the target letter, for the
\* block units standing first or second of two blocks.
ClassifyBlock ==
    /\ pc = "input"
    /\ \E block_index \in {0, 1} :
          LET section_type == _classify_block(units, block_index, 2)
          IN  classified' = [block_index |-> block_index,
                             section_type |-> section_type,
                             target_letter |-> _extract_target_letter(units, section_type)]
    /\ pc' = "classified"
    /\ UNCHANGED <<limiter, units, gap_threshold, sectioning, qa, check, segmented, publishing,
                   backend>>

NextClassify == ClassifyBlock

SpecClassify == InitClassify /\ [][NextClassify]_vars

\* ------------------------------------------------------------------------
\* Admin endpoints on sections (api/v1/admin/book.py)
\* ------------------------------------------------------------------------
HasRow(rows, id) == \E r \in rows : r.id = id

RowOf(rows, id) == CHOOSE r \in rows : r.id = id

\* units_data of auto_section: one dict per text unit of the page, which
\* come ordered by sort_order
_section_units_data(text_units) ==
    [k \in 1..Len(text_units) |->
        [id |-> text_units[k].id,
         unit_type |-> text_units[k].unit_type,
         text_content |-> text_units[k].text_content,
         bbox_x |-> text_units[k].bbox_x, bbox_y |-> text_units[k].bbox_y,
         bbox_w |-> text_units[k].bbox_w, bbox_h |-> text_units[k].bbox_h,
         sort_order |-> text_units[k].sort_order]]

\* The Section rows auto_section adds for the dicts auto_section_page
\* returned; the table gives them the primary keys from next_id on.
_created_sections(page_id, section_dicts, next_id) ==
    { [id |-> next_id + k - 1,
       page_id |-> page_id,
       section_type |-> IF section_dicts[k].section_type \in SectionType
                        THEN section_dicts[k].section_type ELSE "generic",
       target_letter |-> section_dicts[k].target_letter,
       title_ar |-> section_dicts[k].title_ar,
       title_uz |-> section_dicts[k].title_uz,
       sort_order |-> section_dicts[k].sort_order,
       unit_ids |-> section_dicts[k].unit_ids,
       bbox_y_start |-> section_dicts[k].bbox_y_start,
       bbox_y_end |-> section_dicts[k].bbox_y_end,
       is_manual |-> FALSE] : k \in 1..Len(section_dicts) }

\* the replacement without the delete: the new rows are added to all old ones
_replace_automatic_keep_all(rows, next_id, page_id, section_dicts) ==
    IF section_dicts.fault # "none"
    THEN [status |-> 500, outcome |-> section_dicts, sections |-> rows]
    ELSE [status |-> 200, outcome |-> section_dicts,
          sections |-> rows \cup _created_sections(page_id, section_dicts.sections, next_id)]

\* The handler after the call of the engine. An AssertionError of the engine
\* is answered with 500 by the handler, any other exception of it (the
\* ValueError) by the framework; both leave before the delete.
_replace_automatic(rows, next_id, page_id, section_dicts) ==
    IF section_dicts.fault # "none"
    THEN [status |-> 500, outcome |-> section_dicts, sections |-> rows]
    ELSE [status |-> 200, outcome |-> section_dicts,
          sections |-> {s \in rows : ~(s.page_id = page_id /\ s.is_manual = FALSE)}
                       \cup _created_sections(page_id, section_dicts.sections, next_id)]

\* POST /pages/{page_id}/auto-section
auto_section(table_pages, rows, next_id, page_id) ==
    IF page_id \notin DOMAIN table_pages
    THEN [status |-> 404, outcome |-> NoOutcome, sections |-> rows]
    ELSE IF table_pages[page_id].text_units = <<>>
    THEN [status |-> 400, outcome |-> NoOutcome, sections |-> rows]
    ELSE _replace_automatic(rows, next_id, page_id,
             auto_section_page(page_id,
                 _section_units_data(table_pages[page_id].text_units), 5))

\* the fields of SectionUpdate in the order model_dump lists them
SectionUpdateFields == <<"section_type", "target_letter", "title_ar", "title_uz", "sort_order">>

\* the for loop of update_section with an unknown section_type stored as
\* generic
RECURSIVE _update_loop_generic(_, _, _)
_update_loop_generic(section, data, k) ==
    IF k > Len(SectionUpdateFields) THEN [status |-> 200, section |-> section]
    ELSE
      LET field == SectionUpdateFields[k]
      IN  IF field \notin DOMAIN data THEN _update_loop_generic(section, data, k + 1)
          ELSE IF field = "section_type" /\ data[field] \notin SectionType
          THEN _update_loop_generic([section EXCEPT ![field] = "generic"], data, k + 1)
          ELSE _update_loop_generic([section EXCEPT ![field] = data[field]], data, k + 1)

\* The for loop of update_section over the fields the request sets, from the
\* k-th field on. section_type is the first field, so the HTTPException for
\* an unknown type is raised before any setattr.
RECURSIVE _update_loop(_, _, _)
_update_loop(section, data, k) ==
    IF k > Len(SectionUpdateFields) THEN [status |-> 200, section |-> section]
    ELSE
      LET field == SectionUpdateFields[k]
      IN  IF field \notin DOMAIN data THEN _update_loop(section, data, k + 1)
          ELSE IF field = "section_type" /\ data[field] \notin SectionType
          THEN [status |-> 400, section |-> section]
          ELSE _update_loop([section EXCEPT ![field] = data[field]], data, k + 1)

\* PUT /sections/{section_id}
update_section(rows, section_id, data) ==
    IF ~HasRow(rows, section_id) THEN [status |-> 404, sections |-> rows]
    ELSE
      LET section == RowOf(rows, section_id)
          r == _update_loop(section, data, 1)
      IN  IF r.status # 200 THEN [status |-> r.status, sections |-> rows]
          ELSE [status |-> 200,
                sections |-> (rows \ {section}) \cup {[r.section EXCEPT !.is_manual = TRUE]}]

\* DELETE /sections/{section_id}
delete_section(rows, section_id) ==
    IF ~HasRow(rows, section_id) THEN [status |-> 404, sections |-> rows]
    ELSE [status |-> 200, sections |-> rows \ {RowOf(rows, section_id)}]

\* The lists the query of merge_sections can return: the rows named in
\* section_ids, ordered by sort_order, rows of equal sort_order in any order.
_merge_query(rows, section_ids) ==
    LET found == {s \in rows : \E k \in 1..Len(section_ids) : s.id = section_ids[k]}
        n == Cardinality(found)
    IN  {q \in [1..n -> found] :
            \A i, j \in 1..n : i < j => (q[i] # q[j] /\ q[i].sort_order <= q[j].sort_order)}

RECURSIVE _merged_unit_ids(_)
_merged_unit_ids(secs) ==
    IF secs = <<>> THEN <<>> ELSE Head(secs).unit_ids \o _merged_unit_ids(Tail(secs))

\* POST /sections/merge, secs being the list its query returned. The first
\* row absorbs the unit_ids of the others; "x or 100" turns a bbox_y_end of 0
\* into 100.
merge_sections(rows, section_ids, secs) ==
    IF Len(section_ids) < 2 THEN [status |-> 400, sections |-> rows]
    ELSE IF Len(secs) # Len(section_ids) THEN [status |-> 404, sections |-> rows]
    ELSE IF Cardinality({secs[k].page_id : k \in 1..Len(secs)}) > 1
    THEN [status |-> 400, sections |-> rows]
    ELSE
      LET primary == secs[1]
          merged == [primary EXCEPT
                        !.unit_ids = _merged_unit_ids(secs),
                        !.bbox_y_start = MinOf({secs[k].bbox_y_start : k \in 1..Len(secs)}),
                        !.bbox_y_end = MaxOf({IF secs[k].bbox_y_end = 0 THEN 100
                                              ELSE secs[k].bbox_y_end : k \in 1..Len(secs)}),
                        !.is_manual = TRUE]
      IN  [status |-> 200,
           sections |-> (rows \ {secs[k] : k \in 1..Len(secs)}) \cup {merged}]

\* the place of a unit id in a list of unit ids, 0 when it is not there
_index(unit_ids, unit_id) ==
    IF \E k \in 1..Len(unit_ids) : unit_ids[k] = unit_id
    THEN CHOOSE k \in 1..Len(unit_ids) :
             unit_ids[k] = unit_id /\ \A j \in 1..(k - 1) : unit_ids[j] # unit_id
    ELSE 0

\* the section keeps all its unit ids when its second half goes to the new row
split_section_keep_units(rows, next_id, section_id, split_after_unit_id, autoflush) ==
    IF ~HasRow(rows, section_id) THEN [status |-> 404, sections |-> rows]
    ELSE
      LET section == RowOf(rows, section_id)
          unit_ids == section.unit_ids
          split_idx == _index(unit_ids, split_after_unit_id)
      IN  IF split_idx = 0 THEN [status |-> 400, sections |-> rows]
          ELSE IF split_idx >= Len(unit_ids) THEN [status |-> 400, sections |-> rows]
          ELSE [status |-> 200,
                sections |-> rows \cup
                    {[section EXCEPT !.id = next_id, !.sort_order = @ + 1,
                                     !.unit_ids = SubSeq(unit_ids, split_idx + 1, Len(unit_ids)),
                                     !.is_manual = TRUE]}]

\* POST /sections/{section_id}/split. split_idx is the 0-based index of the
\* unit plus one, which is its place here. autoflush tells whether the
\* session sends the new row to the database before the UPDATE that shifts
\* the later sections of the page: then the new row is shifted too.
split_section(rows, next_id, section_id, split_after_unit_id, autoflush) ==
    IF ~HasRow(rows, section_id) THEN [status |-> 404, sections |-> rows]
    ELSE
      LET section == RowOf(rows, section_id)
          unit_ids == section.unit_ids
          split_idx == _index(unit_ids, split_after_unit_id)
          first_half == SubSeq(unit_ids, 1, split_idx)
          second_half == SubSeq(unit_ids, split_idx + 1, Len(unit_ids))
          new_section == [section EXCEPT !.id = next_id,
                                         !.sort_order = @ + (IF autoflush THEN 2 ELSE 1),
                                         !.unit_ids = second_half,
                                         !.is_manual = TRUE]
          shifted == {r \in rows : /\ r.page_id = section.page_id
                                   /\ r.sort_order > section.sort_order
                                   /\ r.id # section.id}
      IN  IF split_idx = 0 THEN [status |-> 400, sections |-> rows]
          ELSE IF split_idx >= Len(unit_ids) THEN [status |-> 400, sections |-> rows]
          ELSE [status |-> 200,
                sections |->
                    (rows \ (shifted \cup {section}))
                    \cup {[r EXCEPT !.sort_order = @ + 1] : r \in shifted}
                    \cup {[section EXCEPT !.unit_ids = first_half, !.is_manual = TRUE],
                          new_section}]

\* ------------------------------------------------------------------------
\* The sections of two pages under the section endpoints
\* ------------------------------------------------------------------------
MaxSectionId == 5

\* every request answered with 200 adds one row to the audit log
MaxAuditLogs == 3

\* the sequences after a request answered with status that created so many
\* sections
_next_sequences(sequences, status, created) ==
    [sequences EXCEPT !.sections = @ + created,
                      !.audit_logs = @ + (IF status = 200 THEN 1 ELSE 0)]

\* the tables have room for the rows of the request
_in_bounds(sequences, status, created) ==
    /\ sequences.sections + created - 1 <= MaxSectionId
    /\ status = 200 => sequences.audit_logs <= MaxAuditLogs

\* a text unit row
TextUnit(id, unit_type, text_content, bbox_y, bbox_h, sort_order) ==
    [id |-> id, unit_type |-> unit_type, text_content |-> text_content,
     bbox_x |-> 0, bbox_y |-> bbox_y, bbox_w |-> 10, bbox_h |-> bbox_h,
     sort_order |-> sort_order, is_manual |-> FALSE]

\* The text units of the first page: none; two or three letters far apart,
\* the first one large; a letter, a divider right below it and a letter far
\* below; two letters close together and a word far below.
PageLayouts ==
    { <<>>,
      << TextUnit(1, "letter", TEXT_BA, 0, 5, 0),
         TextUnit(2, "letter", TEXT_BA_FATHA, 20, 1, 1) >>,
      << TextUnit(1, "letter", TEXT_BA, 0, 5, 0),
         TextUnit(2, "letter", TEXT_BA_FATHA, 20, 1, 1),
         TextUnit(3, "word", TEXT_BA_TA, 40, 1, 2) >>,
      << TextUnit(1, "letter", TEXT_BA_FATHA, 0, 1, 0),
         TextUnit(2, "divider", TEXT_EMPTY, 2, 1, 1),
         TextUnit(3, "letter", TEXT_BA_FATHA, 20, 1, 2) >>,
      << TextUnit(1, "letter", TEXT_BA_FATHA, 0, 1, 0),
         TextUnit(2, "letter", TEXT_BA, 2, 1, 1),
         TextUnit(3, "word", TEXT_BA_TA, 20, 1, 2) >> }

Page(analysis_status, text_units) ==
    [analysis_status |-> analysis_status, text_units |-> text_units, qa_report |-> NoQA]

\* page ids of requests; no page has the last one
RequestPageIds == {1, 2, 3}

\* bodies of update_section requests
TITLE_CUSTOM == <<"Yangi nom", [name |-> "", raw |-> <<>>]>>

SectionUpdates ==
    { [section_type |-> "generic", title_uz |-> TITLE_CUSTOM],
      [section_type |-> "chapter", title_uz |-> TITLE_CUSTOM] }

\* primary keys of requests: those of the rows, and one no row has
RequestIds(rows) == {r.id : r \in rows} \cup {0}

\* the ascending list of a set of ids
RECURSIVE Ascending(_)
Ascending(S) ==
    IF S = {} THEN <<>> ELSE <<MinOf(S)>> \o Ascending(S \ {MinOf(S)})

\* bodies of merge requests: one to three of the ids
MergeRequests(ids) ==
    {Ascending(S) : S \in {T \in SUBSET ids : Cardinality(T) \in 1..3}}

\* unit ids of split requests: those of the section, and one no unit has
SplitRequests(rows, section_id) ==
    (IF HasRow(rows, section_id)
     THEN {RowOf(rows, section_id).unit_ids[k] :
              k \in 1..Len(RowOf(rows, section_id).unit_ids)}
     ELSE {}) \cup {0}

\* The second page has one text unit and has been auto-sectioned; the first
\* page has no section yet.
InitSections ==
    /\ units = <<>>
    /\ gap_threshold = 5
    /\ pc = "serving"
    /\ sectioning = NoOutcome
    /\ qa = NoQA
    /\ check = NoCheck
    /\ classified = NoBlockResult
    /\ segmented = <<>>
    /\ publishing = {}
    /\ _rate_limit_store = <<>>
    /\ clock = 0
    /\ \E text_units \in PageLayouts :
          db_pages = << Page("draft", text_units),
                        Page("draft", <<TextUnit(4, "letter", TEXT_BA_FATHA, 0, 1, 0)>>) >>
    /\ db_sections = auto_section(db_pages, {}, 1, 2).sections
    /\ db_versions = {}
    /\ db_sequences = [sections |-> 2, page_versions |-> 1, text_units |-> 5, audit_logs |-> 1]
    /\ celery_tasks = {}
    /\ response = NoResponse

AutoSectionEndpoint ==
    /\ pc = "serving"
    /\ \E page_id \in RequestPageIds :
          \E r \in {auto_section(db_pages, db_sections, db_sequences.sections, page_id)} :
              LET created == IF r.status = 200 THEN Len(r.outcome.sections) ELSE 0
              IN  /\ _in_bounds(db_sequences, r.status, created)
                  /\ db_sections' = r.sections
                  /\ db_sequences' = _next_sequences(db_sequences, r.status, created)
                  /\ sectioning' = r.outcome
                  /\ response' = [request |-> "auto_section", status |-> r.status,
                                  page_id |-> page_id]
    /\ UNCHANGED <<limiter, units, gap_threshold, pc, qa, check, classified, segmented,
                   publishing, db_pages, db_versions, celery_tasks>>

UpdateSectionEndpoint ==
    /\ pc = "serving"
    /\ \E section_id \in RequestIds(db_sections), data \in SectionUpdates :
          \E r \in {update_section(db_sections, section_id, data)} :
              /\ _in_bounds(db_sequences, r.status, 0)
              /\ db_sections' = r.sections
              /\ db_sequences' = _next_sequences(db_sequences, r.status, 0)
              /\ response' = [request |-> "update_section", status |-> r.status,
                              section_id |-> section_id, data |-> data]
    /\ UNCHANGED <<limiter, units, gap_threshold, pc, sectioning, qa, check, classified,
                   segmented, publishing, db_pages, db_versions, celery_tasks>>

DeleteSectionEndpoint ==
    /\ pc = "serving"
    /\ \E section_id \in RequestIds(db_sections) :
          \E r \in {delete_section(db_sections, section_id)} :
              /\ _in_bounds(db_sequences, r.status, 0)
              /\ db_sections' = r.sections
              /\ db_sequences' = _next_sequences(db_sequences, r.status, 0)
              /\ response' = [request |-> "delete_section", status |-> r.status,
                              section_id |-> section_id]
    /\ UNCHANGED <<limiter, units, gap_threshold, pc, sectioning, qa, check, classified,
                   segmented, publishing, db_pages, db_versions, celery_tasks>>

MergeSectionsEndpoint ==
    /\ pc = "serving"
    /\ \E section_ids \in MergeRequests(RequestIds(db_sections)) :
          \E secs \in _merge_query(db_sections, section_ids) :
              \E r \in {merge_sections(db_sections, section_ids, secs)} :
                  /\ _in_bounds(db_sequences, r.status, 0)
                  /\ db_sections' = r.sections
                  /\ db_sequences' = _next_sequences(db_sequences, r.status, 0)
                  /\ response' = [request |-> "merge_sections", status |-> r.status,
                                  section_ids |-> section_ids]
    /\ UNCHANGED <<limiter, units, gap_threshold, pc, sectioning, qa, check, classified,
                   segmented, publishing, db_pages, db_versions, celery_tasks>>

SplitSectionEndpoint ==
    /\ pc = "serving"
    /\ \E section_id \in RequestIds(db_sections), autoflush \in BOOLEAN :
          \E split_after_unit_id \in SplitRequests(db_sections, section_id) :
              \E r \in {split_section(db_sections, db_sequences.sections, section_id,
                                      split_after_unit_id, autoflush)} :
                  LET created == IF r.status = 200 THEN 1 ELSE 0
                  IN  /\ _in_bounds(db_sequences, r.status, created)
                      /\ db_sections' = r.sections
                      /\ db_sequences' = _next_sequences(db_sequences, r.status, created)
                      /\ response' = [request |-> "split_section", status |-> r.status,
                                      section_id |-> section_id,
                                      split_after_unit_id |-> split_after_unit_id]
    /\ UNCHANGED <<limiter, units, gap_threshold, pc, sectioning, qa, check, classified,
                   segmented, publishing, db_pages, db_versions, celery_tasks>>

NextSections ==
    \/ AutoSectionEndpoint
    \/ UpdateSectionEndpoint
    \/ DeleteSectionEndpoint
    \/ MergeSectionsEndpoint
    \/ SplitSectionEndpoint

SpecSections == InitSections /\ [][NextSections]_vars

\* ------------------------------------------------------------------------
\* The status of a page under upload, analysis, publication and rollback
\* ------------------------------------------------------------------------
PageStatus == {"empty", "pending", "analyzing", "draft", "published", "error"}

UnitType == {"letter", "word", "sentence", "drill_group", "divider"}

UNIT_TYPE_MAP_get(unit_type) == IF unit_type \in UnitType THEN unit_type ELSE "word"

\* What analyze_image finds in an uploaded image: nothing; a letter with its
\* vowel sign; a letter without vowel signs.
AnalyzedLayouts ==
    { <<>>,
      << [unit_type |-> "letter", text |-> TEXT_BA_FATHA, bbox_y |-> 0, bbox_h |-> 5,
          sort_order |-> 0] >>,
      << [unit_type |-> "letter", text |-> TEXT_BA, bbox_y |-> 0, bbox_h |-> 5,
          sort_order |-> 0] >> }

\* analyze_image returns units or raises
AnalysisOutcomes ==
    {[raised |-> TRUE, units |-> <<>>]} \cup
    {[raised |-> FALSE, units |-> l] : l \in AnalyzedLayouts}

\* the rows added for the units of an analysis, after the non-manual rows of
\* the page are deleted; the relationship reads them in sort_order order
_analyzed_text_units(text_units, analyzed, next_id) ==
    sorted(SelectSeq(text_units, LAMBDA u : u.is_manual) \o
           [k \in 1..Len(analyzed) |->
               TextUnit(next_id + k - 1, UNIT_TYPE_MAP_get(analyzed[k].unit_type),
                        analyzed[k].text, analyzed[k].bbox_y, analyzed[k].bbox_h,
                        analyzed[k].sort_order)],
           LAMBDA u : u.sort_order)

\* the inline analysis of upload_page_image when the task queue is down
_inline_analysis(page, outcome, next_id) ==
    IF outcome.raised
    THEN [page EXCEPT !.analysis_status = "error"]
    ELSE [page EXCEPT !.text_units = _analyzed_text_units(@, outcome.units, next_id),
                      !.analysis_status = "draft"]

\* upload_page_image for the page number of an existing page; queued tells
\* whether the analysis task could be queued, and outcome is what the inline
\* analysis gives when it could not
upload_page_image(table_pages, next_id, page_id, queued, outcome) ==
    LET page == [table_pages[page_id] EXCEPT !.analysis_status = "pending"]
    IN  [status |-> 200,
         pages |-> [table_pages EXCEPT ![page_id] =
                       IF queued THEN page ELSE _inline_analysis(page, outcome, next_id)],
         created |-> IF queued \/ outcome.raised THEN 0 ELSE Len(outcome.units)]

\* the analysis of analyze_page_image_task after the status is committed
\* as analyzing
_task_analysis(page, outcome, next_id) ==
    IF outcome.raised \/ outcome.units = <<>>
    THEN [page EXCEPT !.analysis_status = "error"]
    ELSE [page EXCEPT !.text_units = _analyzed_text_units(@, outcome.units, next_id),
                      !.analysis_status = "draft"]

\* the unit dicts publish_page hands to the QA checks
_publish_units_data(text_units) ==
    [k \in 1..Len(text_units) |->
        [text_content |-> text_units[k].text_content,
         bbox_x |-> text_units[k].bbox_x, bbox_y |-> text_units[k].bbox_y,
         bbox_w |-> text_units[k].bbox_w, bbox_h |-> text_units[k].bbox_h,
         sort_order |-> text_units[k].sort_order,
         audio_segment_url |-> FALSE]]

\* the snapshot of a page version
_snapshot(text_units) ==
    [k \in 1..Len(text_units) |->
        [unit_type |-> text_units[k].unit_type,
         text_content |-> text_units[k].text_content,
         bbox_x |-> text_units[k].bbox_x, bbox_y |-> text_units[k].bbox_y,
         bbox_w |-> text_units[k].bbox_w, bbox_h |-> text_units[k].bbox_h,
         sort_order |-> text_units[k].sort_order,
         is_manual |-> text_units[k].is_manual]]

PageVersion(id, page_id, version, snapshot, qa_report) ==
    [id |-> id, page_id |-> page_id, version |-> version, snapshot |-> snapshot,
     qa_report |-> qa_report]

\* coalesce(max(version), 0) + 1 over the versions of the page
_next_version(table_versions, page_id) ==
    MaxOf({v.version : v \in {w \in table_versions : w.page_id = page_id}} \cup {0}) + 1

publish_page_unchecked(table_pages, table_versions, next_id, page_id, kept) ==
    IF page_id \notin DOMAIN table_pages
    THEN [status |-> 404, qa |-> NoQA, pages |-> table_pages, versions |-> table_versions]
    ELSE LET page == table_pages[page_id]
             qa_result == run_qa_checks(_publish_units_data(page.text_units))
         IN  [status |-> 200, qa |-> qa_result,
              pages |-> [table_pages EXCEPT ![page_id] =
                            [page EXCEPT !.qa_report = qa_result,
                                         !.analysis_status = "published"]],
              versions |-> table_versions \cup
                  {PageVersion(next_id, page_id, _next_version(table_versions, page_id),
                               _snapshot(page.text_units), qa_result)}]

\* kept tells whether the QA report flushed before the rejection stays in the
\* database: that is up to the session the request runs in.
publish_page(table_pages, table_versions, next_id, page_id, kept) ==
    IF page_id \notin DOMAIN table_pages
    THEN [status |-> 404, qa |-> NoQA, pages |-> table_pages, versions |-> table_versions]
    ELSE LET page == table_pages[page_id]
             qa_result == run_qa_checks(_publish_units_data(page.text_units))
         IN  IF ~qa_result.passed
             THEN [status |-> 422, qa |-> qa_result,
                   pages |-> IF kept
                             THEN [table_pages EXCEPT ![page_id].qa_report = qa_result]
                             ELSE table_pages,
                   versions |-> table_versions]
             ELSE [status |-> 200, qa |-> qa_result,
                   pages |-> [table_pages EXCEPT ![page_id] =
                                 [page EXCEPT !.qa_report = qa_result,
                                              !.analysis_status = "published"]],
                   versions |-> table_versions \cup
                       {PageVersion(next_id, page_id,
                                    _next_version(table_versions, page_id),
                                    _snapshot(page.text_units), qa_result)}]

\* the rows rollback_page adds for the units of a snapshot
_restored_text_units(snapshot, next_id) ==
    [k \in 1..Len(snapshot) |->
        [id |-> next_id + k - 1,
         unit_type |-> IF snapshot[k].unit_type \in UnitType
                       THEN snapshot[k].unit_type ELSE "letter",
         text_content |-> snapshot[k].text_content,
         bbox_x |-> snapshot[k].bbox_x, bbox_y |-> snapshot[k].bbox_y,
         bbox_w |-> snapshot[k].bbox_w, bbox_h |-> snapshot[k].bbox_h,
         sort_order |-> snapshot[k].sort_order,
         is_manual |-> snapshot[k].is_manual]]

\* rollback_page deleting only the automatic text units of the page
rollback_page_keep_manual(table_pages, table_versions, next_id, page_id, version_id) ==
    LET found == {v \in table_versions : v.id = version_id /\ v.page_id = page_id}
    IN  IF found = {} \/ page_id \notin DOMAIN table_pages
        THEN [status |-> 404, pages |-> table_pages, created |-> 0]
        ELSE LET version == CHOOSE v \in found : TRUE
                 manual(u) == u.is_manual
             IN  [status |-> 200,
                  pages |-> [table_pages EXCEPT ![page_id] =
                      [@ EXCEPT !.text_units = SelectSeq(@, manual) \o
                                    _restored_text_units(version.snapshot, next_id),
                                !.analysis_status = "draft",
                                !.qa_report = version.qa_report]],
                  created |-> Len(version.snapshot)]

rollback_page(table_pages, table_versions, next_id, page_id, version_id) ==
    LET found == {v \in table_versions : v.id = version_id /\ v.page_id = page_id}
    IN  IF found = {} \/ page_id \notin DOMAIN table_pages
        THEN [status |-> 404, pages |-> table_pages, created |-> 0]
        ELSE LET version == CHOOSE v \in found : TRUE
             IN  [status |-> 200,
                  pages |-> [table_pages EXCEPT ![page_id] =
                      [@ EXCEPT !.text_units = _restored_text_units(version.snapshot, next_id),
                                !.analysis_status = "draft",
                                !.qa_report = version.qa_report]],
                  created |-> Len(version.snapshot)]

\* primary keys of the text units of all pages
_unit_ids(table_pages) ==
    UNION { {table_pages[p].text_units[k].id : k \in 1..Len(table_pages[p].text_units)} :
            p \in DOMAIN table_pages }

delete_text_unit(table_pages, unit_id) ==
    IF unit_id \notin _unit_ids(table_pages)
    THEN [status |-> 404, pages |-> table_pages]
    ELSE [status |-> 200,
          pages |-> [p \in DOMAIN table_pages |->
                       [table_pages[p] EXCEPT !.text_units =
                           SelectSeq(@, LAMBDA u : u.id # unit_id)]]]

\* max_retries of analyze_page_image_task
max_retries == 2

\* tasks the queue holds at a time
MaxTasks == 1

\* page ids of requests; no page has the last one
PublishPageIds == {1, 2}

\* the sequences after a request answered with status that created so many
\* text units and page versions
_publish_sequences(sequences, status, created_units, created_versions) ==
    [sequences EXCEPT !.text_units = @ + created_units,
                      !.page_versions = @ + created_versions,
                      !.audit_logs = @ + (IF status = 200 THEN 1 ELSE 0)]

\* TA with FATHA
TEXT_TA_FATHA == <<1578, 1614>>

\* the row create_text_unit adds for a hotspot drawn by hand
ManualTextUnit(id) ==
    [TextUnit(id, "letter", TEXT_TA_FATHA, 20, 5, 1) EXCEPT !.is_manual = TRUE]

\* One page that has never been uploaded, without text units or with one
\* created by hand.
InitPublish ==
    /\ units = <<>>
    /\ gap_threshold = 5
    /\ pc = "serving"
    /\ sectioning = NoOutcome
    /\ qa = NoQA
    /\ check = NoCheck
    /\ classified = NoBlockResult
    /\ segmented = <<>>
    /\ publishing = {}
    /\ _rate_limit_store = <<>>
    /\ clock = 0
    /\ \E manual \in BOOLEAN :
          /\ db_pages = << Page("empty", IF manual THEN <<ManualTextUnit(1)>> ELSE <<>>) >>
          /\ db_sequences = [sections |-> 1, page_versions |-> 1,
                             text_units |-> IF manual THEN 2 ELSE 1, audit_logs |-> 1]
    /\ db_sections = {}
    /\ db_versions = {}
    /\ celery_tasks = {}
    /\ response = NoResponse

UploadPageImageEndpoint ==
    /\ pc = "serving"
    /\ db_sequences.audit_logs <= MaxAuditLogs
    /\ \E page_id \in DOMAIN db_pages, queued \in BOOLEAN, outcome \in AnalysisOutcomes :
          \E r \in {upload_page_image(db_pages, db_sequences.text_units, page_id,
                                     queued, outcome)} :
              /\ queued => outcome.raised /\ Cardinality(celery_tasks) < MaxTasks
              /\ db_pages' = r.pages
              /\ db_sequences' = _publish_sequences(db_sequences, r.status, r.created, 0)
              /\ celery_tasks' =
                    IF queued
                    THEN celery_tasks \cup
                         {[id |-> db_sequences.audit_logs, page_id |-> page_id,
                           state |-> "queued", retries |-> 0]}
                    ELSE celery_tasks
              /\ response' = [request |-> "upload_page_image", status |-> r.status,
                              page_id |-> page_id]
    /\ UNCHANGED <<limiter, units, gap_threshold, pc, sectioning, qa, check, classified,
                   segmented, publishing, db_sections, db_versions>>

\* A worker takes a task and commits the status analyzing. Tasks are told
\* apart by the audit row of their upload.
AnalyzePageImageTaskStart ==
    /\ pc = "serving"
    /\ \E task \in celery_tasks :
          /\ task.state = "queued"
          /\ db_pages' = [db_pages EXCEPT ![task.page_id].analysis_status = "analyzing"]
          /\ celery_tasks' = (celery_tasks \ {task}) \cup {[task EXCEPT !.state = "started"]}
          /\ response' = [request |-> "analyze_page_image_task", status |-> 0,
                          page_id |-> task.page_id]
    /\ UNCHANGED <<limiter, units, gap_threshold, pc, sectioning, qa, check, classified,
                   segmented, publishing, db_sections, db_versions, db_sequences>>

\* the worker analyses the image and commits the result; a task that raised
\* is queued again until its retries are used up
AnalyzePageImageTaskFinish ==
    /\ pc = "serving"
    /\ \E task \in celery_tasks, outcome \in AnalysisOutcomes :
          /\ task.state = "started"
          /\ db_pages' = [db_pages EXCEPT ![task.page_id] =
                             _task_analysis(@, outcome, db_sequences.text_units)]
          /\ db_sequences' = _publish_sequences(db_sequences, 0,
                                 IF outcome.raised THEN 0 ELSE Len(outcome.units), 0)
          /\ celery_tasks' =
                IF outcome.raised /\ task.retries < max_retries
                THEN (celery_tasks \ {task}) \cup
                     {[task EXCEPT !.state = "queued", !.retries = @ + 1]}
                ELSE celery_tasks \ {task}
          /\ response' = [request |-> "analyze_page_image_task", status |-> 0,
                          page_id |-> task.page_id]
    /\ UNCHANGED <<limiter, units, gap_threshold, pc, sectioning, qa, check, classified,
                   segmented, publishing, db_sections, db_versions>>

PublishPageEndpoint ==
    /\ pc = "serving"
    /\ \E page_id \in PublishPageIds, kept \in BOOLEAN :
          \E r \in {publish_page(db_pages, db_versions, db_sequences.page_versions,
                                page_id, kept)} :
              /\ r.status = 200 => db_sequences.audit_logs <= MaxAuditLogs
              /\ db_pages' = r.pages
              /\ db_versions' = r.versions
              /\ db_sequences' = _publish_sequences(db_sequences, r.status, 0,
                                     IF r.status = 200 THEN 1 ELSE 0)
              /\ qa' = r.qa
              /\ response' = [request |-> "publish_page", status |-> r.status,
                              page_id |-> page_id]
    /\ UNCHANGED <<limiter, units, gap_threshold, pc, sectioning, check, classified, segmented,
                   publishing, db_sections, celery_tasks>>

RollbackPageEndpoint ==
    /\ pc = "serving"
    /\ \E page_id \in PublishPageIds, version_id \in RequestIds(db_versions) :
          \E r \in {rollback_page(db_pages, db_versions, db_sequences.text_units,
                                 page_id, version_id)} :
              /\ r.status = 200 => db_sequences.audit_logs <= MaxAuditLogs
              /\ db_pages' = r.pages
              /\ db_sequences' = _publish_sequences(db_sequences, r.status, r.created, 0)
              /\ response' = [request |-> "rollback_page", status |-> r.status,
                              page_id |-> page_id, version_id |-> version_id]
    /\ UNCHANGED <<limiter, units, gap_threshold, pc, sectioning, qa, check, classified,
                   segmented, publishing, db_sections, db_versions, celery_tasks>>

DeleteTextUnitEndpoint ==
    /\ pc = "serving"
    /\ \E unit_id \in _unit_ids(db_pages) \cup {0} :
          \E r \in {delete_text_unit(db_pages, unit_id)} :
              /\ r.status = 200 => db_sequences.audit_logs <= MaxAuditLogs
              /\ db_pages' = r.pages
              /\ db_sequences' = _publish_sequences(db_sequences, r.status, 0, 0)
              /\ response' = [request |-> "delete_text_unit", status |-> r.status,
                              page_id |-> 0]
    /\ UNCHANGED <<limiter, units, gap_threshold, pc, sectioning, qa, check, classified,
                   segmented, publishing, db_sections, db_versions, celery_tasks>>

NextPublish ==
    \/ UploadPageImageEndpoint
    \/ AnalyzePageImageTaskStart
    \/ AnalyzePageImageTaskFinish
    \/ PublishPageEndpoint
    \/ RollbackPageEndpoint
    \/ DeleteTextUnitEndpoint

SpecPublish == InitPublish /\ [][NextPublish]_vars

\* ------------------------------------------------------------------------
\* Inputs of the hitbox and audio checks
\* ------------------------------------------------------------------------
MaxHitboxUnits == 2

\* boxes with and without width and height
HitboxBoxes == { <<0, 0, 10, 10>>, <<0, 0, 0, 10>>, <<0, 0, 10, 0>>, <<0, 0, 0, 0>> }

HitboxTexts == {TEXT_BA_FATHA, TEXT_LATIN}

InitHitbox ==
    /\ \E l \in ListsOf(HitboxTexts \X HitboxBoxes \X BOOLEAN, MaxHitboxUnits) :
          units = QAList(l)
    /\ gap_threshold = 5
    /\ pc = "input"
    /\ sectioning = NoOutcome
    /\ qa = NoQA
    /\ check = NoCheck
    /\ classified = NoBlockResult
    /\ segmented = <<>>
    /\ publishing = {}
    /\ _rate_limit_store = <<>>
    /\ clock = 0
    /\ NoBackend

\* A call check_empty_hitboxes(units).
CheckEmptyHitboxes ==
    /\ pc = "input"
    /\ check' = check_empty_hitboxes(units)
    /\ pc' = "hitboxes checked"
    /\ UNCHANGED <<limiter, units, gap_threshold, sectioning, qa, classified, segmented,
                   publishing, backend>>

\* A call check_audio_coverage(units).
CheckAudioCoverage ==
    /\ pc = "input"
    /\ check' = check_audio_coverage(units)
    /\ pc' = "audio checked"
    /\ UNCHANGED <<limiter, units, gap_threshold, sectioning, qa, classified, segmented,
                   publishing, backend>>

\* A call run_qa_checks(units) on the same units.
RunQAHitbox ==
    /\ pc = "input"
    /\ qa' = run_qa_checks(units)
    /\ pc' = "checked"
    /\ UNCHANGED <<limiter, units, gap_threshold, sectioning, check, classified, segmented,
                   publishing, backend>>

NextHitbox == CheckEmptyHitboxes \/ CheckAudioCoverage \/ RunQAHitbox

SpecHitbox == InitHitbox /\ [][NextHitbox]_vars

\* ------------------------------------------------------------------------
\* Inputs of the two diacritics predicates
\* ------------------------------------------------------------------------
MaxMarkLen == 2

\* Code points at the borders of the ranges of _DIACRITICS_RE and of the set
\* ARABIC_DIACRITICS, the letter BA and Latin A.
MarkCodePoints ==
    {65, 1551, 1552, 1562, 1563, 1576, 1610, 1611, 1621, 1622, 1631, 1632, 1648, 1649}

InitMarks ==
    /\ \E text \in ListsOf(MarkCodePoints, MaxMarkLen) :
          units = <<QAUnit(1, text, <<0, 0, 10, 10>>, FALSE)>>
    /\ gap_threshold = 5
    /\ pc = "input"
    /\ sectioning = NoOutcome
    /\ qa = NoQA
    /\ check = NoCheck
    /\ classified = NoBlockResult
    /\ segmented = <<>>
    /\ publishing = {}
    /\ _rate_limit_store = <<>>
    /\ clock = 0
    /\ NoBackend

\* The QA checker and the classifier each ask whether the text of the unit
\* has diacritics.
HasDiacritics ==
    /\ pc = "input"
    /\ check' = [name |-> "has_diacritics",
                 passed |-> has_arabic_diacritics(units[1].text_content),
                 details |-> [has_diacritics |-> has_diacritics(units[1].text_content)]]
    /\ pc' = "marks"
    /\ UNCHANGED <<limiter, units, gap_threshold, sectioning, qa, classified, segmented,
                   publishing, backend>>

NextMarks == HasDiacritics

SpecMarks == InitMarks /\ [][NextMarks]_vars

\* ------------------------------------------------------------------------
\* Inputs of the segmentation
\* ------------------------------------------------------------------------
MaxSegmentUnits == 3

\* heights 1 and 8: a unit at y = 0 of height 8 reaches below one at y = 2
SegmentHeights == {1, 8}

\* a unit is <<unit_type, bbox_y, bbox_h>>; its id is its place in the list
SegmentList(l) ==
    [k \in 1..Len(l) |->
        [id |-> k, unit_type |-> l[k][1],
         text_content |-> IF l[k][1] = "divider" THEN TEXT_EMPTY ELSE TEXT_BA_FATHA,
         bbox_x |-> 0, bbox_y |-> l[k][2], bbox_w |-> 10, bbox_h |-> l[k][3],
         sort_order |-> k - 1, audio_segment_url |-> FALSE]]

InitSegment ==
    /\ \E l \in ListsOf({"letter", "divider"} \X YValues \X SegmentHeights,
                        MaxSegmentUnits) :
          units = SegmentList(l)
    /\ gap_threshold \in Thresholds
    /\ pc = "input"
    /\ sectioning = NoOutcome
    /\ qa = NoQA
    /\ check = NoCheck
    /\ classified = NoBlockResult
    /\ segmented = <<>>
    /\ publishing = {}
    /\ _rate_limit_store = <<>>
    /\ clock = 0
    /\ NoBackend

\* A call _segment_by_y_axis(units, gap_threshold).
SegmentByYAxis ==
    /\ pc = "input"
    /\ segmented' = _segment_by_y_axis(units, gap_threshold)
    /\ pc' = "segmented"
    /\ UNCHANGED <<limiter, units, gap_threshold, sectioning, qa, check, classified, publishing,
                   backend>>

NextSegment == SegmentByYAxis

SpecSegment == InitSegment /\ [][NextSegment]_vars

\* ------------------------------------------------------------------------
\* Publish requests of several clients on the same pages
\* ------------------------------------------------------------------------
\* the clients whose requests may be in progress together
Clients == {1, 2}

\* Two uploaded and analysed pages; the text of the second fails QA.
InitVersions ==
    /\ units = <<>>
    /\ gap_threshold = 5
    /\ pc = "serving"
    /\ sectioning = NoOutcome
    /\ qa = NoQA
    /\ check = NoCheck
    /\ classified = NoBlockResult
    /\ segmented = <<>>
    /\ publishing = {}
    /\ _rate_limit_store = <<>>
    /\ clock = 0
    /\ \E text \in {TEXT_BA_FATHA, TEXT_BA} :
          db_pages = << Page("draft", <<TextUnit(1, "letter", TEXT_BA_FATHA, 0, 5, 0)>>),
                        Page("draft", <<TextUnit(2, "letter", text, 0, 5, 0)>>) >>
    /\ db_sections = {}
    /\ db_versions = {}
    /\ db_sequences = [sections |-> 1, page_versions |-> 1, text_units |-> 3, audit_logs |-> 1]
    /\ celery_tasks = {}
    /\ response = NoResponse

\* A publish_page request of a client up to its read of the latest version
\* of the page: a request rejected by then is over, one that goes on holds
\* the version number it computed.
PublishPageRead ==
    /\ pc = "serving"
    /\ db_sequences.audit_logs <= MaxAuditLogs
    /\ \E client \in Clients, page_id \in PublishPageIds, kept \in BOOLEAN :
          /\ \A p \in publishing : p.client # client
          /\ \E r \in {publish_page(db_pages, db_versions, 0, page_id, kept)} :
                /\ qa' = r.qa
                /\ IF r.status = 200
                   THEN /\ publishing' = publishing \cup
                               {[client |-> client, page_id |-> page_id,
                                 next_version |-> _next_version(db_versions, page_id),
                                 snapshot |-> _snapshot(db_pages[page_id].text_units),
                                 qa_report |-> r.qa]}
                        /\ UNCHANGED <<limiter, db_pages, response>>
                   ELSE /\ db_pages' = r.pages
                        /\ response' = [request |-> "publish_page", status |-> r.status,
                                        page_id |-> page_id]
                        /\ UNCHANGED publishing
    /\ UNCHANGED <<limiter, units, gap_threshold, pc, sectioning, check, classified, segmented,
                   db_sections, db_versions, db_sequences, celery_tasks>>

\* The rest of the request: the PageVersion row with the version number
\* computed at the read is added and the page is published. aborted tells
\* whether the database refuses the transaction because a version of the page
\* was committed after the read, which depends on the isolation level of the
\* engine.
PublishPageInsert ==
    /\ pc = "serving"
    /\ \E p \in publishing, aborted \in BOOLEAN :
          /\ aborted => p.next_version # _next_version(db_versions, p.page_id)
          /\ publishing' = publishing \ {p}
          /\ IF aborted
             THEN /\ response' = [request |-> "publish_page", status |-> 500,
                                  page_id |-> p.page_id]
                  /\ UNCHANGED <<limiter, db_pages, db_versions, db_sequences>>
             ELSE /\ db_versions' = db_versions \cup
                        {PageVersion(db_sequences.page_versions, p.page_id, p.next_version,
                                     p.snapshot, p.qa_report)}
                  /\ db_pages' = [db_pages EXCEPT ![p.page_id] =
                                     [@ EXCEPT !.qa_report = p.qa_report,
                                               !.analysis_status = "published"]]
                  /\ db_sequences' = _publish_sequences(db_sequences, 200, 0, 1)
                  /\ response' = [request |-> "publish_page", status |-> 200,
                                  page_id |-> p.page_id]
    /\ UNCHANGED <<limiter, units, gap_threshold, pc, sectioning, qa, check, classified, segmented,
                   db_sections, celery_tasks>>

NextVersions == PublishPageRead \/ PublishPageInsert \/ RollbackPageEndpoint

SpecVersions == InitVersions /\ [][NextVersions]_vars

\* ------------------------------------------------------------------------
\* Rate limiting middleware (middleware/rate_limit.py)
\* ------------------------------------------------------------------------
\* A URL path is the sequence of pieces whose concatenation is the path, so
\* that str.startswith is the prefix relation on sequences.
PATH_FEEDBACK == <<"/api/v1/feedback">>

PATH_LOGIN == <<"/api/v1/admin/auth/login">>

\* LIMITS, in the order of the dict: pattern -> (max_requests, window_seconds)
LIMITS ==
    << [pattern |-> PATH_FEEDBACK, max_requests |-> 5, window |-> 60],
       [pattern |-> PATH_LOGIN, max_requests |-> 10, window |-> 300] >>

startswith(path, pattern) ==
    /\ Len(pattern) <= Len(path)
    /\ SubSeq(path, 1, Len(pattern)) = pattern

\* the first entry of LIMITS whose pattern starts the path of a POST request
_limit_matches(path, method) ==
    {k \in DOMAIN LIMITS : startswith(path, LIMITS[k].pattern) /\ method = "POST"}

\* f"rl:{path}:{client_ip}"
_rate_limit_key(path, client_ip) == <<"rl:">> \o path \o <<":", client_ip>>

\* _rate_limit_store[key], the empty list for a key that is not stored
_stored_times(store, key) == IF key \in DOMAIN store THEN store[key] ELSE <<>>

_store_set(store, key, times) ==
    [k \in DOMAIN store \cup {key} |-> IF k = key THEN times ELSE store[k]]

\* RateLimitMiddleware.dispatch: status 429 is the HTTPException raised,
\* status 200 stands for the response of call_next
dispatch(store, now, path, method, client_ip) ==
    IF _limit_matches(path, method) = {}
    THEN [status |-> 200, store |-> store]
    ELSE LET config == LIMITS[MinOf(_limit_matches(path, method))]
             key == _rate_limit_key(path, client_ip)
             fresh(t) == t > now - config.window
             cleaned == SelectSeq(_stored_times(store, key), fresh)
         IN  IF Len(cleaned) >= config.max_requests
             THEN [status |-> 429, store |-> _store_set(store, key, cleaned)]
             ELSE [status |-> 200, store |-> _store_set(store, key, Append(cleaned, now))]

\* request.client.host, or "unknown" for a request without a client address
ClientHosts == {"10.0.0.1"}

RequestPaths ==
    {PATH_FEEDBACK, PATH_FEEDBACK \o <<"/">>, PATH_LOGIN, <<"/api/v1/book/pages">>}

RequestMethods == {"GET", "POST"}

\* the values of time.time() at which requests arrive, in seconds
Instants == {0, 60, 300}

InitLimiter ==
    /\ units = <<>>
    /\ gap_threshold = 5
    /\ pc = "serving"
    /\ sectioning = NoOutcome
    /\ qa = NoQA
    /\ check = NoCheck
    /\ classified = NoBlockResult
    /\ segmented = <<>>
    /\ publishing = {}
    /\ _rate_limit_store = <<>>
    /\ clock = 0
    /\ NoBackend

\* one request passes through the middleware
Dispatch ==
    /\ pc = "serving"
    /\ \E path \in RequestPaths, method \in RequestMethods, client_ip \in ClientHosts :
          \E r \in {dispatch(_rate_limit_store, clock, path, method, client_ip)} :
              /\ _rate_limit_store' = r.store
              /\ response' = [request |-> "dispatch", status |-> r.status, path |-> path,
                              method |-> method, client_ip |-> client_ip]
    /\ UNCHANGED <<units, gap_threshold, pc, sectioning, qa, check, classified, segmented,
                   publishing, db_pages, db_sections, db_versions, db_sequences,
                   celery_tasks, clock>>

\* time passes
Tick ==
    /\ pc = "serving"
    /\ \E t \in Instants : t > clock /\ clock' = t
    /\ UNCHANGED <<units, gap_threshold, pc, sectioning, qa, check, classified, segmented,
                   publishing, backend, _rate_limit_store>>

NextLimiter == Dispatch \/ Tick

SpecLimiter == InitLimiter /\ [][NextLimiter]_vars

\* ------------------------------------------------------------------------
\* Properties of the sectioning engine
\* ------------------------------------------------------------------------
IdsOf(us) == {us[k].id : k \in 1..Len(us)}

IdsDistinct(us) == \A i, j \in 1..Len(us) : us[i].id = us[j].id => i = j

RECURSIVE ConcatUnitIds(_)
ConcatUnitIds(sections) ==
    IF sections = <<>> THEN <<>>
    ELSE Head(sections).unit_ids \o ConcatUnitIds(Tail(sections))

\* the unit_ids of the sections, concatenated, hold every id of us once and
\* no other id
IsPartition(sections, us) ==
    LET all == ConcatUnitIds(sections)
    IN  /\ {all[k] : k \in 1..Len(all)} = IdsOf(us)
        /\ \A i, j \in 1..Len(all) : all[i] = all[j] => i = j

Returned == pc = "sectioned" /\ sectioning.fault = "none"

\* C1: for every non-empty fragment list with pairwise distinct ids and every
\* threshold, auto_section_page returns sections whose unit_ids, concatenated,
\* hold every input id exactly once and no other id.
C1_PartitionOfInputIds ==
    (pc = "sectioned" /\ units # <<>> /\ IdsDistinct(units))
        => (sectioning.fault = "none" /\ IsPartition(sectioning.sections, units))

\* Whenever a call on distinct ids does return, its sections partition the ids.
PartitionWhenReturned ==
    (Returned /\ IdsDistinct(units)) => IsPartition(sectioning.sections, units)

\* C2: every fragment of type divider is alone in a section of the result, and
\* that section has type divider, wherever the divider stands in the bbox_y
\* order.
C2_DividerIsolation ==
    (Returned /\ IdsDistinct(units))
        => \A k \in 1..Len(units) :
              units[k].unit_type = "divider"
                  => \E n \in 1..Len(sectioning.sections) :
                        /\ sectioning.sections[n].unit_ids = <<units[k].id>>
                        /\ sectioning.sections[n].section_type = "divider"

\* C3: every block _segment_by_y_axis emits is non-empty, so auto_section_page
\* never takes min/max over an empty block (stated on the lists a page can
\* have, those of pairwise distinct ids).
C3_BlocksNonEmpty ==
    (pc = "sectioned" /\ IdsDistinct(units))
        => /\ \A n \in 1..Len(_segment_by_y_axis(units, gap_threshold)) :
                  _segment_by_y_axis(units, gap_threshold)[n] # <<>>
           /\ sectioning.fault # "ValueError"

\* C4: no fragment list, lists with a repeated id included, makes either
\* fidelity assertion of auto_section_page fire.
C4_NoFaultFromInput ==
    pc = "sectioned"
        => sectioning.fault \notin {"AssertionError: assigned to multiple sections",
                                    "AssertionError: unit loss"}

\* ------------------------------------------------------------------------
\* Properties of the QA checker
\* ------------------------------------------------------------------------
Checked == pc = "checked"

\* the check of the QAResult with the given name passed
Passed(name) ==
    \E k \in 1..Len(qa.checks) : qa.checks[k].name = name /\ qa.checks[k].passed

\* C5 as stated: whenever passed is false, one of unit_count, no_overlaps,
\* no_duplicates has failed.
C5_OnlyThreeChecksBlock ==
    (Checked /\ ~qa.passed)
        => (~Passed("unit_count") \/ ~Passed("no_overlaps") \/ ~Passed("no_duplicates"))

\* C5 amended: whenever passed is false, one of unit_count,
\* diacritics_presence, no_overlaps, no_duplicates has failed; hitbox_check and
\* audio_coverage cannot by themselves make passed false.
C5_OnlyFourChecksBlock ==
    (Checked /\ ~qa.passed)
        => (\/ ~Passed("unit_count") \/ ~Passed("diacritics_presence")
            \/ ~Passed("no_overlaps") \/ ~Passed("no_duplicates"))

\* a page failed by diacritics_presence alone, with an empty hitbox on it
C5_Witness ==
    /\ Checked /\ ~qa.passed
    /\ Passed("unit_count") /\ Passed("no_overlaps") /\ Passed("no_duplicates")
    /\ ~Passed("diacritics_presence")
    /\ \E k \in 1..Len(units) : units[k].bbox_w = 0

\* the list with every audio reference set to a
WithAudio(us, a) == [k \in 1..Len(us) |-> [us[k] EXCEPT !.audio_segment_url = a]]

\* C6: passed is true exactly when unit_count, diacritics_presence,
\* no_overlaps, no_duplicates and hitbox_check all passed, and the verdict is
\* the same with every audio reference set or removed.
C6_PassedIffFiveChecks ==
    Checked
        => /\ qa.passed <=> (/\ Passed("unit_count") /\ Passed("diacritics_presence")
                             /\ Passed("no_overlaps") /\ Passed("no_duplicates")
                             /\ Passed("hitbox_check"))
           /\ \A a \in BOOLEAN : run_qa_checks(WithAudio(units, a)).passed = qa.passed

\* a page of two units, one without audio, that passed
C6_Witness ==
    /\ Checked /\ qa.passed /\ Len(units) >= 2
    /\ \E k \in 1..Len(units) : ~units[k].audio_segment_url
    /\ \E k \in 1..Len(units) : units[k].audio_segment_url

\* the text without its leading and trailing white space: empty when it is all
\* white space, else the part from its first to its last other character
Trimmed(text) ==
    LET inner == {k \in 1..Len(text) : text[k] \notin WhiteSpace}
    IN  IF inner = {} THEN <<>> ELSE SubSeq(text, MinOf(inner), MaxOf(inner))

SameTrimmedText(us, i, j) == Trimmed(us[i].text_content) = Trimmed(us[j].text_content)

\* C7 as stated: no_duplicates passes iff no two fragments, whatever their
\* text, have the same trimmed text_content.
C7_NoDuplicatesAllTexts ==
    Checked
        => (Passed("no_duplicates")
              <=> ~\E i, j \in 1..Len(units) : i < j /\ SameTrimmedText(units, i, j))

\* C7 amended: no_duplicates passes iff no two fragments have the same
\* non-empty trimmed text_content; fragments whose trimmed text is empty are
\* left out of the comparison.
C7_NoDuplicatesNonEmptyTexts ==
    Checked
        => (Passed("no_duplicates")
              <=> ~\E i, j \in 1..Len(units) :
                      /\ i < j /\ SameTrimmedText(units, i, j)
                      /\ Trimmed(units[i].text_content) # <<>>)

\* two texts that differ only by white space around them, reported
C7_Witness ==
    /\ Checked /\ ~Passed("no_duplicates")
    /\ \E i, j \in 1..Len(units) :
          /\ i < j /\ SameTrimmedText(units, i, j)
          /\ units[i].text_content # units[j].text_content
    /\ \A i, j \in 1..Len(units) :
          i < j => units[i].text_content # units[j].text_content

Weight(name, w) == IF Passed(name) THEN w ELSE 0

\* C8: the score (in hundredths) is the sum of the weights 15, 30, 20, 15, 10,
\* 10 of the checks that passed; it lies in 0..100, is 100 when all six pass
\* and 70 when diacritics_presence alone failed.
C8_ScoreIsWeightSum ==
    Checked
        => /\ qa.score = Weight("unit_count", 15) + Weight("diacritics_presence", 30)
                           + Weight("no_overlaps", 20) + Weight("no_duplicates", 15)
                           + Weight("hitbox_check", 10) + Weight("audio_coverage", 10)
           /\ 0 <= qa.score /\ qa.score <= 100
           /\ (\A k \in 1..Len(qa.checks) : qa.checks[k].passed) => qa.score = 100
           /\ (\A k \in 1..Len(qa.checks) :
                  qa.checks[k].passed <=> qa.checks[k].name # "diacritics_presence")
                => qa.score = 70

\* diacritics_presence is the only failed check
C8_Witness ==
    /\ Checked /\ Len(qa.checks) = 6
    /\ \A k \in 1..Len(qa.checks) :
          qa.checks[k].passed <=> qa.checks[k].name # "diacritics_presence"

\* the units with a character in U+0600..U+06FF, and those of them with a
\* diacritic (U+064B..U+0655 or U+0670) in their text
ArabicUnits(us) ==
    {k \in 1..Len(us) :
        \E n \in 1..Len(us[k].text_content) :
            1536 <= us[k].text_content[n] /\ us[k].text_content[n] <= 1791}

MarkedUnits(us) ==
    {k \in ArabicUnits(us) :
        \E n \in 1..Len(us[k].text_content) :
            \/ (1611 <= us[k].text_content[n] /\ us[k].text_content[n] <= 1621)
            \/ us[k].text_content[n] = 1648}

Cells(u) ==
    {<<x, y>> \in (u.bbox_x .. (u.bbox_x + u.bbox_w - 1))
                    \X (u.bbox_y .. (u.bbox_y + u.bbox_h - 1)) : TRUE}

\* the intersection of the two boxes is more than 0.3 of the smaller box
Flagged(u1, u2) ==
    LET inter == Cardinality(Cells(u1) \cap Cells(u2))
        a1 == Cardinality(Cells(u1))
        a2 == Cardinality(Cells(u2))
        smaller == IF a1 < a2 THEN a1 ELSE a2
    IN  smaller > 0 /\ 10 * inter > 3 * smaller

RECURSIVE Reversed(_)
Reversed(seq) == IF seq = <<>> THEN <<>> ELSE Append(Reversed(Tail(seq)), Head(seq))

HasBox(u, x, y, w, h) == u.bbox_x = x /\ u.bbox_y = y /\ u.bbox_w = w /\ u.bbox_h = h

\* C10: no_overlaps passes iff no two distinct fragments of non-zero width
\* intersect in more than 0.3 of the smaller one's area; (0,0,10,10) with
\* (5,5,10,10) is not flagged, (0,0,10,10) with (5,5,6,6) is, and the order
\* of the list does not change the verdict.
C10_NoOverlapsRule ==
    pc = "overlaps"
        => /\ check.name = "no_overlaps"
           /\ check.passed
                <=> ~\E i, j \in 1..Len(units) :
                        /\ i # j /\ units[i].bbox_w # 0 /\ units[j].bbox_w # 0
                        /\ Flagged(units[i], units[j])
           /\ (/\ Len(units) = 2
               /\ \E i, j \in 1..2 : /\ HasBox(units[i], 0, 0, 10, 10)
                                     /\ HasBox(units[j], 5, 5, 10, 10))
                => check.passed
           /\ (\E i, j \in 1..Len(units) : /\ HasBox(units[i], 0, 0, 10, 10)
                                           /\ HasBox(units[j], 5, 5, 6, 6))
                => ~check.passed
           /\ check_overlaps(Reversed(units)).passed = check.passed

\* the boxes (5,5,6,6) and (0,0,10,10), in this order, flagged with the ratio
\* 25/36
C10_Witness ==
    /\ pc = "overlaps" /\ ~check.passed /\ Len(units) = 2
    /\ HasBox(units[1], 5, 5, 6, 6) /\ HasBox(units[2], 0, 0, 10, 10)
    /\ check.details.overlaps[1].overlap_ratio = <<25, 36>>

\* ------------------------------------------------------------------------
\* Properties of the empty input
\* ------------------------------------------------------------------------
\* the names of the checks of the QAResult that did not pass
FailedChecks == {qa.checks[k].name : k \in {j \in 1..Len(qa.checks) : ~qa.checks[j].passed}}

\* C11: on the empty fragment list auto_section_page returns the empty
\* section list without raising, and run_qa_checks returns passed = false with
\* unit_count the only failed check and score 0.85.
C11_EmptyInput ==
    (pc = "sectioned and checked" /\ units = <<>>)
        => /\ sectioning = [fault |-> "none", sections |-> <<>>]
           /\ qa.passed = FALSE
           /\ FailedChecks = {"unit_count"}
           /\ qa.score = 85

C11_Witness ==
    /\ pc = "sectioned and checked"
    /\ units = <<>>
    /\ sectioning.fault = "none"
    /\ qa.score = 85

\* ------------------------------------------------------------------------
\* Properties of the target letter
\* ------------------------------------------------------------------------
\* a base letter: U+0621..U+064A or U+0671..U+06FF (no diacritic lies there)
IsBaseLetter(ch) == (1569 <= ch /\ ch <= 1610) \/ (1649 <= ch /\ ch <= 1791)

\* the base letters of the texts of us, in the order of us
RECURSIVE BaseLetterSeq(_)
BaseLetterSeq(us) ==
    IF us = <<>> THEN <<>>
    ELSE SelectSeq(Head(us).text_content, IsBaseLetter) \o BaseLetterSeq(Tail(us))

Occurrences(seq, c) == Cardinality({k \in 1..Len(seq) : seq[k] = c})

FirstOccurrence(seq, c) == CHOOSE k \in 1..Len(seq) :
                              seq[k] = c /\ \A j \in 1..(k - 1) : seq[j] # c

\* C13: _extract_target_letter returns no letter for the types
\* opening_sentence, divider and alphabet_grid and for a block without base
\* letters; otherwise it returns a base letter of the highest number of
\* occurrences in the block's base letters taken in block order, and among
\* those of the highest count the one that occurs first.
C13_TargetLetter ==
    pc = "letter" =>
        LET all == BaseLetterSeq(units)
            t == classified.target_letter
        IN  IF classified.section_type \in {"opening_sentence", "divider", "alphabet_grid"}
               \/ all = <<>>
            THEN t = None
            ELSE /\ \E k \in 1..Len(all) : all[k] = t
                 /\ \A k \in 1..Len(all) :
                       /\ Occurrences(all, all[k]) <= Occurrences(all, t)
                       /\ Occurrences(all, all[k]) = Occurrences(all, t)
                             => FirstOccurrence(all, t) <= FirstOccurrence(all, all[k])

\* texts [B], [B, T], [T]: B and T both occur twice, B first
C13_Witness ==
    /\ pc = "letter"
    /\ Len(units) = 3
    /\ units[1].text_content = TEXT_BA
    /\ units[2].text_content = TEXT_BA_TA
    /\ units[3].text_content = TEXT_TA
    /\ classified.section_type = "letter_drill"
    /\ classified.target_letter = 1576

\* ------------------------------------------------------------------------
\* Properties of the block classifier
\* ------------------------------------------------------------------------
\* the positions of the fragments of us with the given unit_type
OfType(us, unit_type) == {k \in 1..Len(us) : us[k].unit_type = unit_type}

\* the number of base letters of a text
BaseLetterCount(text) == Cardinality({k \in 1..Len(text) : IsBaseLetter(text[k])})

\* the text carries a mark of U+0610..U+061A, U+064B..U+065F or U+0670
HasMark(text) ==
    \E k \in 1..Len(text) :
        \/ (1552 <= text[k] /\ text[k] <= 1562)
        \/ (1611 <= text[k] /\ text[k] <= 1631)
        \/ text[k] = 1648

RECURSIVE SumOver(_, _)
SumOver(S, f) ==
    IF S = {} THEN 0
    ELSE LET k == CHOOSE x \in S : TRUE IN f[k] + SumOver(S \ {k}, f)

RuleDivider(us) == Len(us) = 1 /\ us[1].unit_type = "divider"

\* mean raw text length > 10
RuleOpening(us, block_index) ==
    /\ block_index = 0
    /\ OfType(us, "sentence") # {}
    /\ Len(us) <= 3
    /\ SumOver(1..Len(us), [k \in 1..Len(us) |-> Len(us[k].text_content)]) > 10 * Len(us)

\* |h - mean| / mean < 0.3 for more than 0.7 of the letter fragments, with
\* mean = total / n
RuleGrid(us) ==
    LET letters == OfType(us, "letter")
        n == Cardinality(letters)
        total == SumOver(letters, [k \in 1..Len(us) |-> us[k].bbox_h])
        near == {k \in letters : 10 * Abs(n * us[k].bbox_h - total) < 3 * total}
    IN  n >= 14 /\ 10 * Cardinality(near) > 7 * n

RuleIntroduction(us) ==
    LET single == {k \in 1..Len(us) : BaseLetterCount(us[k].text_content) = 1}
    IN  /\ Len(us) <= 5
        /\ 2 * Cardinality(single) >= Len(us)
        /\ \E k \in single : us[k].bbox_h > 3

\* half the fragments are letters or there are three or more, and 0.4 of them
\* carry a mark on at most two base letters
RuleLetterDrill(us) ==
    /\ 2 * Cardinality(OfType(us, "letter")) >= Len(us) \/ Len(us) >= 3
    /\ 10 * Cardinality({k \in 1..Len(us) :
                /\ HasMark(us[k].text_content)
                /\ BaseLetterCount(us[k].text_content) <= 2}) >= 4 * Len(us)

\* 0.3 of the fragments are words or there are two or more, and 0.4 of them
\* have two to six base letters
RuleWordDrill(us) ==
    /\ 10 * Cardinality(OfType(us, "word")) >= 3 * Len(us) \/ Len(us) >= 2
    /\ 10 * Cardinality({k \in 1..Len(us) :
                /\ 2 <= BaseLetterCount(us[k].text_content)
                /\ BaseLetterCount(us[k].text_content) <= 6}) >= 4 * Len(us)

RuleFallback(us) == 10 * Cardinality(OfType(us, "letter")) >= 6 * Len(us)

\* the rules in the order they are tried
Rules(us, block_index) ==
    << [type |-> "divider", matches |-> RuleDivider(us)],
       [type |-> "opening_sentence", matches |-> RuleOpening(us, block_index)],
       [type |-> "alphabet_grid", matches |-> RuleGrid(us)],
       [type |-> "letter_introduction", matches |-> RuleIntroduction(us)],
       [type |-> "letter_drill", matches |-> RuleLetterDrill(us)],
       [type |-> "word_drill", matches |-> RuleWordDrill(us)],
       [type |-> "letter_drill", matches |-> RuleFallback(us)],
       [type |-> "generic", matches |-> TRUE] >>

C19_SectionOrder ==
    Returned =>
        \A n \in 1..Len(sectioning.sections) :
            /\ sectioning.sections[n].sort_order = n - 1
            /\ n > 1 => sectioning.sections[n - 1].bbox_y_start
                            <= sectioning.sections[n].bbox_y_start

\* a list given bottom fragment first comes back as two sections, top first
C19_Witness ==
    /\ Returned
    /\ Len(units) >= 2
    /\ units[1].bbox_y > units[2].bbox_y
    /\ Len(sectioning.sections) >= 2
    /\ sectioning.sections[1].bbox_y_start < sectioning.sections[2].bbox_y_start
    /\ sectioning.sections[2].sort_order = 1

\* the position in us of the fragment with the given id
PositionOf(us, id) == CHOOSE k \in 1..Len(us) : us[k].id = id

\* fragment us[i] stands before us[j] once us is sorted by bbox_y
BeforeByY(us, i, j) ==
    \/ us[i].bbox_y < us[j].bbox_y
    \/ (us[i].bbox_y = us[j].bbox_y /\ i < j)

\* C20: within each returned section unit_ids lists the fragments in ascending
\* sort_order, whatever their bbox_y; fragments of equal sort_order keep the
\* order they have in the bbox_y-sorted block.
C20_UnitIdsBySortOrder ==
    (Returned /\ IdsDistinct(units)) =>
        \A n \in 1..Len(sectioning.sections) :
            LET ids == sectioning.sections[n].unit_ids
            IN  \A a, b \in 1..Len(ids) :
                    a < b =>
                        LET i == PositionOf(units, ids[a])
                            j == PositionOf(units, ids[b])
                        IN  /\ units[i].sort_order <= units[j].sort_order
                            /\ units[i].sort_order = units[j].sort_order
                                  => BeforeByY(units, i, j)

\* a section whose first unit_id is a fragment lying below its second one
C20_Witness ==
    /\ Returned
    /\ IdsDistinct(units)
    /\ \E n \in 1..Len(sectioning.sections) :
          LET ids == sectioning.sections[n].unit_ids
          IN  /\ Len(ids) >= 2
              /\ units[PositionOf(units, ids[1])].bbox_y
                    > units[PositionOf(units, ids[2])].bbox_y
              /\ units[PositionOf(units, ids[1])].sort_order
                    < units[PositionOf(units, ids[2])].sort_order

\* ------------------------------------------------------------------------
\* Properties of the section endpoints
\* ------------------------------------------------------------------------
\* the step is an update_section request naming a stored section and a
\* section_type that is none of the seven
UnknownTypeUpdate ==
    /\ response'.request = "update_section"
    /\ HasRow(db_sections, response'.section_id)
    /\ response'.data.section_type \notin SectionType

\* C15 as stated: an update_section request with an unknown section_type does
\* not fail; the section's type becomes generic and the other requested
\* fields are applied.
C15_UnknownTypeFallsBack ==
    [][UnknownTypeUpdate =>
          /\ response'.status = 200
          /\ HasRow(db_sections', response'.section_id)
          /\ RowOf(db_sections', response'.section_id).section_type = "generic"
          /\ RowOf(db_sections', response'.section_id).title_uz = response'.data.title_uz
      ]_vars

\* C15 amended: an update_section request with an unknown section_type on a
\* stored section is rejected with status 400 and changes no section, none of
\* its other fields included.
C15_UnknownTypeRejected ==
    [][UnknownTypeUpdate =>
          /\ response'.status = 400
          /\ db_sections' = db_sections
      ]_vars

C15_Witness ==
    /\ response.request = "update_section"
    /\ response.status = 400
    /\ response.data.section_type \notin SectionType
    /\ HasRow(db_sections, response.section_id)
    /\ RowOf(db_sections, response.section_id).title_uz # response.data.title_uz
    /\ RowOf(db_sections, response.section_id).is_manual = FALSE

\* the fields of a Section row other than its primary key
SectionFields(s) ==
    [page_id |-> s.page_id, section_type |-> s.section_type,
     target_letter |-> s.target_letter, title_ar |-> s.title_ar, title_uz |-> s.title_uz,
     sort_order |-> s.sort_order, unit_ids |-> s.unit_ids,
     bbox_y_start |-> s.bbox_y_start, bbox_y_end |-> s.bbox_y_end,
     is_manual |-> s.is_manual]

\* C16: when the auto-section endpoint completes on a page, every manual
\* section of the page is still stored unchanged, every automatic section the
\* page had is gone, the rows added are exactly the sections auto_section_page
\* returned, all on that page with is_manual = false, and the sections of the
\* other pages are unchanged.
C16_AutoSectionReplacesAutomatic ==
    [][(response'.request = "auto_section" /\ response'.status = 200) =>
          LET page_id == response'.page_id
              before == {s \in db_sections : s.page_id = page_id}
              manual == {s \in before : s.is_manual}
              added == db_sections' \ db_sections
              returned == sectioning'.sections
          IN  /\ manual \subseteq db_sections'
              /\ \A s \in before \ manual : ~HasRow(db_sections', s.id)
              /\ Cardinality(added) = Len(returned)
              /\ \A k \in 1..Len(returned) : \E s \in added : SectionFields(s) = returned[k]
              /\ \A s \in added : s.page_id = page_id /\ s.is_manual = FALSE
              /\ {s \in db_sections' : s.page_id = page_id} = manual \cup added
              /\ {s \in db_sections' : s.page_id # page_id}
                    = {s \in db_sections : s.page_id # page_id}
      ]_vars

\* the page of the last auto-section request holds a manual section next to
\* the new automatic ones, and another page has a section
C16_Witness ==
    /\ response.request = "auto_section"
    /\ response.status = 200
    /\ \E s \in db_sections : s.page_id = response.page_id /\ s.is_manual
    /\ \E s \in db_sections : s.page_id = response.page_id /\ ~s.is_manual
    /\ \E s \in db_sections : s.page_id # response.page_id
    /\ sectioning.sections # <<>>

\* the rows named in section_ids
Named(rows, section_ids) ==
    {s \in rows : \E k \in 1..Len(section_ids) : s.id = section_ids[k]}

\* the sections are of one page and no other section of the page lies
\* strictly between two of them in sort_order
Adjacent(rows, secs) ==
    /\ \A s, t \in secs : s.page_id = t.page_id
    /\ \A s, t \in secs : \A o \in rows \ secs :
          o.page_id = s.page_id
              => ~(s.sort_order < o.sort_order /\ o.sort_order < t.sort_order)

\* C18: a merge that succeeds merged sections of one page that were
\* consecutive in the page's sort_order order; a request naming stored
\* sections that are not adjacent is rejected and changes no section.
C18_MergeOnlyAdjacent ==
    [][response'.request = "merge_sections" =>
          LET secs == Named(db_sections, response'.section_ids)
          IN  /\ response'.status = 200 => Adjacent(db_sections, secs)
              /\ (Cardinality(secs) = Len(response'.section_ids) /\ ~Adjacent(db_sections, secs))
                    => (response'.status # 200 /\ db_sections' = db_sections)
      ]_vars

\* ------------------------------------------------------------------------
\* Properties of publication
\* ------------------------------------------------------------------------
\* the versions stored for a page
VersionsOf(table_versions, page_id) == {v \in table_versions : v.page_id = page_id}

\* the step handles a publish_page request for an existing page p
PublishStep(p) ==
    /\ response'.request = "publish_page"
    /\ response'.page_id = p
    /\ p \in DOMAIN db_pages

\* C17: publish_page sets the status of a page to published and adds one
\* PageVersion snapshot only when run_qa_checks on the current text units of
\* the page passed; when QA fails the request is rejected with 422, the
\* status stays as it was and no PageVersion is created. In every step, the
\* status of a page changes to published only if the step is a publish_page
\* request for that page whose QA verdict was passed.
C17_PublishedOnlyAfterQAPass ==
    [][\A p \in DOMAIN db_pages :
          /\ (db_pages'[p].analysis_status = "published"
                /\ db_pages[p].analysis_status # "published")
             => PublishStep(p) /\ response'.status = 200 /\ qa'.passed
          /\ PublishStep(p)
             => /\ qa' = run_qa_checks(_publish_units_data(db_pages[p].text_units))
                /\ qa'.passed
                   => /\ response'.status = 200
                      /\ db_pages'[p].analysis_status = "published"
                      /\ \E v \in db_versions' \ db_versions :
                            /\ db_versions' = db_versions \cup {v}
                            /\ v.page_id = p
                            /\ v.snapshot = _snapshot(db_pages[p].text_units)
                /\ ~qa'.passed
                   => /\ response'.status = 422
                      /\ db_pages'[p].analysis_status = db_pages[p].analysis_status
                      /\ db_pages'[p].text_units = db_pages[p].text_units
                      /\ db_versions' = db_versions]_vars

\* a page was published, has changed since, and a publish_page request for
\* it is rejected: it stays a draft that has a version
C17_Witness ==
    /\ response.request = "publish_page"
    /\ response.page_id = 1
    /\ response.status = 422
    /\ ~qa.passed
    /\ db_pages[1].analysis_status = "draft"
    /\ VersionsOf(db_versions, 1) # {}

\* ------------------------------------------------------------------------
\* Properties of the informational checks
\* ------------------------------------------------------------------------
\* the units without width or without height
EmptyBoxes(us) == {k \in 1..Len(us) : us[k].bbox_w = 0 \/ us[k].bbox_h = 0}

\* C21: hitbox_check and audio_coverage pass for every list of units,
\* whatever the boxes (no width, no height) and the audio references are;
\* hitbox_check counts the units without width or height, audio_coverage the
\* units with audio; in the QAResult both have passed, so their weights are
\* always in the score.
C21_InformationalChecksPass ==
    /\ pc = "hitboxes checked"
         => /\ check.name = "hitbox_check"
            /\ check.passed
            /\ check.details.empty_count = Cardinality(EmptyBoxes(units))
    /\ pc = "audio checked"
         => /\ check.name = "audio_coverage"
            /\ check.passed
            /\ check.details.total = Len(units)
            /\ check.details.with_audio =
                  Cardinality({k \in 1..Len(units) : units[k].audio_segment_url})
    /\ Checked
         => /\ Passed("hitbox_check") /\ Passed("audio_coverage")
            /\ qa.score >= weights_get("hitbox_check") + weights_get("audio_coverage")

\* the hitbox check has passed a page on which no unit has width, height or
\* audio
C21_Witness ==
    /\ pc = "hitboxes checked"
    /\ check.passed
    /\ Len(units) = 2
    /\ check.details.empty_count = 2
    /\ \E k \in 1..Len(units) : units[k].bbox_h = 0 /\ units[k].bbox_w # 0
    /\ \A k \in 1..Len(units) : ~units[k].audio_segment_url

\* ------------------------------------------------------------------------
\* Properties of the diacritics predicates
\* ------------------------------------------------------------------------
\* C22: the predicate of the QA checker gives the same answer as
\* has_diacritics of the sectioning engine on every text: true iff the text
\* has a code point in U+0610..U+061A, U+064B..U+065F or U+0670.
C22_SameDiacriticsPredicate ==
    pc = "marks"
        => /\ check.passed = check.details.has_diacritics
           /\ check.passed <=>
                 \E k \in 1..Len(units[1].text_content) :
                     LET ch == units[1].text_content[k]
                     IN  ch \in (1552..1562) \cup (1611..1631) \cup {1648}

\* ------------------------------------------------------------------------
\* Properties of the segmentation
\* ------------------------------------------------------------------------
\* the blocks one after the other, in emission order
RECURSIVE ConcatBlocks(_)
ConcatBlocks(bs) == IF bs = <<>> THEN <<>> ELSE Head(bs) \o ConcatBlocks(Tail(bs))

\* the place of the k-th input unit in the bbox_y order that keeps the input
\* order of units of equal bbox_y
RankByY(us, k) ==
    Cardinality({j \in 1..Len(us) : us[j].bbox_y < us[k].bbox_y})
      + Cardinality({j \in 1..k : us[j].bbox_y = us[k].bbox_y})

\* the units in that order
InYOrder(us) == [r \in 1..Len(us) |-> us[CHOOSE k \in 1..Len(us) : RankByY(us, k) = r]]

\* the block that holds the i-th unit of the concatenation
BlockAt(bs, i) ==
    CHOOSE b \in 1..Len(bs) :
        LET before == SumSeq([c \in 1..(b - 1) |-> Len(bs[c])])
        IN  before < i /\ i <= before + Len(bs[b])

\* C24: the blocks of _segment_by_y_axis, one after the other in emission
\* order, are the input units sorted by bbox_y with units of equal bbox_y in
\* input order; so every unit is in exactly one block and every block is a
\* run of the sorted list; no units give no blocks.
C24_BlocksAreSortedRuns ==
    pc = "segmented"
        => /\ ConcatBlocks(segmented) = InYOrder(units)
           /\ units = <<>> => segmented = <<>>

\* three units not in bbox_y order, two of them at the same bbox_y, in more
\* than one block
C24_Witness ==
    /\ pc = "segmented"
    /\ Len(units) = 3
    /\ Len(segmented) >= 2
    /\ units[1].bbox_y > units[2].bbox_y
    /\ units[2].bbox_y = units[3].bbox_y
    /\ ConcatBlocks(segmented) = <<units[2], units[3], units[1]>>

SectionsOf(rows, page_id) == {s \in rows : s.page_id = page_id}

\* how often a unit id occurs in the sections of a page: the places <<section
\* id, index>> that hold it
StoredOccurrences(rows, page_id, unit_id) ==
    Cardinality(UNION {{<<s.id, k>> : k \in {j \in 1..Len(s.unit_ids) : s.unit_ids[j] = unit_id}} :
                       s \in SectionsOf(rows, page_id)})

\* each text unit of the page is in exactly one of its sections
StoredPartition(table_pages, rows, page_id) ==
    \A k \in 1..Len(table_pages[page_id].text_units) :
        StoredOccurrences(rows, page_id, table_pages[page_id].text_units[k].id) = 1

\* C25: when an auto-section request on a page has completed, each text unit
\* id of the page occurs in exactly one stored section of the page, manual
\* and automatic sections together, whatever update, split and merge
\* requests came before.
C25_StoredSectionsPartition ==
    (response.request = "auto_section" /\ response.status = 200)
        => StoredPartition(db_pages, db_sections, response.page_id)

\* the named sections of a merge request, ordered by sort_order in some way
MergeOrders(rows, section_ids) ==
    LET named == {s \in rows : \E k \in 1..Len(section_ids) : s.id = section_ids[k]}
        n == Cardinality(named)
    IN  {q \in [1..n -> named] :
            \A i, j \in 1..n : i < j => (q[i] # q[j] /\ q[i].sort_order <= q[j].sort_order)}

\* the unit ids of every section other than those with the given ids
OtherUnitIds(rows, ids) == {<<s.id, s.unit_ids>> : s \in {t \in rows : t.id \notin ids}}

\* C26: a split that succeeds leaves the section its first units and gives
\* the rest to one new section, both non-empty and together the unit ids the
\* section had; a merge that succeeds leaves one of the named sections, with
\* the unit ids of all of them in sort_order order, and removes the others;
\* no other section changes its unit ids, so each unit id occurs as often on
\* each page as before; a split or merge that is rejected changes no section.
C26_SplitMergeConserveUnitIds ==
    [][/\ (response'.request = "split_section" /\ response'.status = 200) =>
            LET id == response'.section_id
                old == RowOf(db_sections, id)
                added == {s \in db_sections' : ~HasRow(db_sections, s.id)}
            IN  /\ HasRow(db_sections', id)
                /\ Cardinality(added) = 1
                /\ \A new \in added :
                      /\ new.page_id = old.page_id
                      /\ RowOf(db_sections', id).unit_ids # <<>>
                      /\ new.unit_ids # <<>>
                      /\ RowOf(db_sections', id).unit_ids \o new.unit_ids = old.unit_ids
                      /\ OtherUnitIds(db_sections', {id, new.id})
                            = OtherUnitIds(db_sections, {id})
       /\ (response'.request = "merge_sections" /\ response'.status = 200) =>
            LET ids == {response'.section_ids[k] : k \in 1..Len(response'.section_ids)}
            IN  \E q \in MergeOrders(db_sections, response'.section_ids) :
                    /\ HasRow(db_sections', q[1].id)
                    /\ RowOf(db_sections', q[1].id).unit_ids
                          = ConcatUnitIds([k \in 1..Len(q) |-> q[k]])
                    /\ \A k \in 2..Len(q) : ~HasRow(db_sections', q[k].id)
                    /\ OtherUnitIds(db_sections', ids) = OtherUnitIds(db_sections, ids)
       /\ (response'.request \in {"split_section", "merge_sections"}
             /\ response'.status # 200) => db_sections' = db_sections
       /\ response'.request \in {"split_section", "merge_sections"} =>
            \A p \in DOMAIN db_pages : \A u \in _unit_ids(db_pages) :
                StoredOccurrences(db_sections', p, u) = StoredOccurrences(db_sections, p, u)
      ]_vars

\* a section of two units has been split, and the three sections of the
\* page hold each of its units once
C26_Witness ==
    /\ response.request = "split_section"
    /\ response.status = 200
    /\ Len(db_pages[1].text_units) = 3
    /\ Cardinality(SectionsOf(db_sections, 1)) = 3
    /\ StoredPartition(db_pages, db_sections, 1)

\* ------------------------------------------------------------------------
\* Properties of the page versions
\* ------------------------------------------------------------------------
\* C27: the version numbers of the PageVersion rows of a page are pairwise
\* distinct and, after n successful publishes of the page, are exactly 1..n,
\* also when two publish requests for the page read the latest version
\* before either has inserted its row.
C27_VersionNumbersDistinct ==
    \A p \in DOMAIN db_pages :
        LET versions == VersionsOf(db_versions, p)
        IN  /\ \A v, w \in versions : v.version = w.version => v = w
            /\ {v.version : v \in versions} = 1..Cardinality(versions)


\* both sequences hold the same elements the same number of times
SameMultiset(s, t) ==
    /\ Len(s) = Len(t)
    /\ \A k \in DOMAIN s : Occurrences(s, s[k]) = Occurrences(t, s[k])

\* the step handles a rollback_page request
RollbackStep == response'.request = "rollback_page"

\* the version row a rollback_page request names, if the page has it
RollbackVersions ==
    {v \in db_versions : v.id = response'.version_id /\ v.page_id = response'.page_id}

\* C28: after rollback_page succeeds, the text units of the page are exactly
\* the units recorded in the snapshot of that version (the same multiset of
\* unit_type, text_content, bbox_x, bbox_y, bbox_w, bbox_h, sort_order and
\* is_manual), every unit stored before the rollback is gone, manual ones
\* included, and the page status is draft; a rollback naming a missing
\* version or page answers 404 and changes no page and no version.
C28_RollbackRestoresSnapshot ==
    [][RollbackStep =>
          /\ response'.status \in {200, 404}
          /\ response'.status = 200
             <=> RollbackVersions # {} /\ response'.page_id \in DOMAIN db_pages
          /\ response'.status = 200
             => \A v \in RollbackVersions :
                   LET before == db_pages[v.page_id].text_units
                       after == db_pages'[v.page_id].text_units
                   IN  /\ SameMultiset(_snapshot(after), v.snapshot)
                       /\ \A i \in DOMAIN before, j \in DOMAIN after :
                             before[i].id # after[j].id
                       /\ db_pages'[v.page_id].analysis_status = "draft"
                       /\ \A p \in DOMAIN db_pages \ {v.page_id} :
                             db_pages'[p] = db_pages[p]
                       /\ db_versions' = db_versions
          /\ response'.status = 404
             => db_pages' = db_pages /\ db_versions' = db_versions]_vars

\* a page was published with an analysed unit and one drawn by hand, and a
\* rollback to that version replaced both by copies under new primary keys
C28_Witness ==
    /\ response.request = "rollback_page"
    /\ response.status = 200
    /\ db_pages[1].analysis_status = "draft"
    /\ \E v \in db_versions :
          /\ v.id = response.version_id
          /\ Len(v.snapshot) = 2
          /\ SameMultiset(_snapshot(db_pages[1].text_units), v.snapshot)
    /\ \E k \in DOMAIN db_pages[1].text_units :
          /\ db_pages[1].text_units[k].is_manual
          /\ db_pages[1].text_units[k].text_content = TEXT_TA_FATHA
          /\ db_pages[1].text_units[k].id > 3

\* the requests of a client that the middleware passed on under the k-th
\* limit and whose time lies in the window that ends now: every request passed
\* on under a limit is appended to the store, and an entry leaves the store
\* only when it is a whole window old
PassedInWindow(store, now, client_ip, k) ==
    {<<path, i>> \in RequestPaths \X (1..LIMITS[2].max_requests) :
        /\ startswith(path, LIMITS[k].pattern)
        /\ i <= Len(_stored_times(store, _rate_limit_key(path, client_ip)))
        /\ _stored_times(store, _rate_limit_key(path, client_ip))[i] > now - LIMITS[k].window}

\* the step handles a request at the middleware
DispatchStep == clock' = clock /\ response'.request = "dispatch"

\* C29: for each client IP and each rate-limited endpoint (/api/v1/feedback:
\* 5 requests per 60 s; /api/v1/admin/auth/login: 10 requests per 300 s) the
\* middleware lets through at most max_requests POST requests to paths under
\* that prefix within any window of window_seconds; a request over the limit
\* is rejected with 429 and is not recorded; a request that is not POST or
\* not under a limited prefix is never rejected or recorded.
C29_AtMostMaxRequestsPerWindow ==
    [][DispatchStep =>
          /\ \A client_ip \in ClientHosts, k \in DOMAIN LIMITS :
                Cardinality(PassedInWindow(_rate_limit_store', clock', client_ip, k))
                    <= LIMITS[k].max_requests
          /\ response'.status = 429
             => \A key \in DOMAIN _rate_limit_store' :
                   Len(_rate_limit_store'[key]) <= Len(_stored_times(_rate_limit_store, key))
          /\ _limit_matches(response'.path, response'.method) = {}
             => response'.status = 200 /\ _rate_limit_store' = _rate_limit_store]_vars

\* every check of the QAResult passed
AllChecksPassed == \A k \in 1..Len(qa.checks) : qa.checks[k].passed

\* C30: for every fragment list the QAResult of run_qa_checks has a score of
\* at least 0.20 (20 hundredths), and passed is true iff the score is 1.00:
\* a page is publishable exactly when all six checks pass.
C30_ScoreFloorAndFullScore ==
    Checked
        => /\ qa.score >= 20
           /\ qa.passed <=> qa.score = 100
           /\ qa.passed <=> (Len(qa.checks) = 6 /\ AllChecksPassed)

\* two copies of a bare BA on the same box: diacritics_presence, no_overlaps
\* and no_duplicates failed, and the score is 35
C30_Witness ==
    /\ Checked /\ ~qa.passed /\ qa.score = 35
    /\ Len(units) = 2
    /\ ~Passed("diacritics_presence") /\ ~Passed("no_overlaps") /\ ~Passed("no_duplicates")

====
